---------------------------- MODULE Spec2Model ----------------------------
(***************************************************************************)
(* A model of the WhatsApp flow execution engine (FlowEngine in            *)
(* src/src/types/index.ts) and of the interpolation helpers of the         *)
(* controllers.                                                            *)
(*                                                                         *)
(* Strings are sequences of one-character strings, so that trimming,       *)
(* case folding, numeric parsing and the placeholder regular expressions   *)
(* are computed character by character.  JavaScript values are tagged      *)
(* records: [t |-> "undef"], [t |-> "null"], [t |-> "num", n |-> 5],       *)
(* [t |-> "str", s |-> <<"a">>], [t |-> "obj", o |-> <<[k |-> .., v |->    *)
(* ..]>>] (an object is the sequence of its entries in insertion order).   *)
(***************************************************************************)
EXTENDS Integers, Sequences, FiniteSets, TLC

VARIABLES
    contact_sessions,   \* table contact_sessions: rows in order of creation
    contacts,           \* table contacts: rows in order of creation
    message_logs,       \* table message_logs: one row per sendMessage
    error_logs,         \* table error_logs: rows written by logError
    now,                \* the wall clock, in hours
    call                \* the last request handled or helper called: inputs, result

vars == <<contact_sessions, contacts, message_logs, error_logs, now, call>>

store == <<contact_sessions, contacts, message_logs, error_logs, now>>

(***************************************************************************)
(* Characters and strings                                                  *)
(***************************************************************************)
Digits == <<"0", "1", "2", "3", "4", "5", "6", "7", "8", "9">>

DigitChars == {Digits[i] : i \in 1..10}

LowerChars == {"a", "b", "c", "d", "e", "f", "g", "h", "i", "j", "k", "l", "m",
               "n", "o", "p", "q", "r", "s", "t", "u", "v", "w", "x", "y", "z"}

UpperChars == {"H", "I", "O", "X", "W", "E"}

\* the class \w of a JavaScript regular expression
WordChars == LowerChars \cup UpperChars \cup DigitChars \cup {"_"}

\* String.prototype.toLowerCase on the characters the model uses
LowerOf(c) ==
    CASE c = "H" -> "h"
      [] c = "I" -> "i"
      [] c = "O" -> "o"
      [] c = "X" -> "x"
      [] c = "W" -> "w"
      [] c = "E" -> "e"
      [] OTHER -> c

toLowerCase(s) == [i \in 1..Len(s) |-> LowerOf(s[i])]

RECURSIVE trimStart(_)
trimStart(s) ==
    IF s # <<>> /\ Head(s) = " " THEN trimStart(Tail(s)) ELSE s

RECURSIVE trimEnd(_)
trimEnd(s) ==
    IF s # <<>> /\ s[Len(s)] = " " THEN trimEnd(SubSeq(s, 1, Len(s) - 1)) ELSE s

\* String.prototype.trim
trim(s) == trimEnd(trimStart(s))

\* String.prototype.includes
includes(s, sub) ==
    \E i \in 1..(Len(s) - Len(sub) + 1) : SubSeq(s, i, i + Len(sub) - 1) = sub

DigitValue(c) == CHOOSE d \in 0..9 : Digits[d + 1] = c

RECURSIVE DigitsValue(_)
DigitsValue(s) ==
    IF s = <<>> THEN 0
    ELSE 10 * DigitsValue(SubSeq(s, 1, Len(s) - 1)) + DigitValue(s[Len(s)])

RECURSIVE NatToString(_)
NatToString(n) ==
    IF n < 10 THEN <<Digits[n + 1]>>
    ELSE NatToString(n \div 10) \o <<Digits[(n % 10) + 1]>>

(***************************************************************************)
(* JavaScript values                                                       *)
(***************************************************************************)
Undef == [t |-> "undef"]

Null == [t |-> "null"]

NaN == [t |-> "nan"]

Num(n) == [t |-> "num", n |-> n]

Str(s) == [t |-> "str", s |-> s]

Obj(entries) == [t |-> "obj", o |-> entries]

\* obj[key]: the value of the entry with that key, undefined without one
Get(obj, key) ==
    IF obj.t = "obj" /\ \E i \in 1..Len(obj.o) : obj.o[i].k = key
    THEN obj.o[CHOOSE i \in 1..Len(obj.o) : obj.o[i].k = key].v
    ELSE Undef

\* key in obj
HasKey(obj, key) == obj.t = "obj" /\ \E i \in 1..Len(obj.o) : obj.o[i].k = key

\* {...obj, [key]: value}: an existing key keeps its place, a new one is appended
Put(obj, key, value) ==
    IF HasKey(obj, key)
    THEN Obj([i \in 1..Len(obj.o) |->
                IF obj.o[i].k = key THEN [k |-> key, v |-> value] ELSE obj.o[i]])
    ELSE Obj(Append(obj.o, [k |-> key, v |-> value]))

\* the truthiness of a value: undefined, null, NaN, 0 and "" are falsy
Truthy(v) ==
    CASE v.t = "undef" -> FALSE
      [] v.t = "null" -> FALSE
      [] v.t = "nan" -> FALSE
      [] v.t = "num" -> v.n # 0
      [] v.t = "str" -> v.s # <<>>
      [] OTHER -> TRUE

\* Number(string): whitespace is trimmed, "" is 0, digits are their value, NaN otherwise
StringToNumber(s) ==
    LET t == trim(s)
    IN  IF t = <<>> THEN Num(0)
        ELSE IF \A i \in 1..Len(t) : t[i] \in DigitChars THEN Num(DigitsValue(t))
        ELSE NaN

\* Number(value)
Number(v) ==
    CASE v.t = "undef" -> NaN
      [] v.t = "null" -> Num(0)
      [] v.t = "num" -> v
      [] v.t = "str" -> StringToNumber(v.s)
      [] OTHER -> NaN

ObjectObject ==
    <<"[", "o", "b", "j", "e", "c", "t", " ", "O", "b", "j", "e", "c", "t", "]">>

\* String(value)
String(v) ==
    CASE v.t = "undef" -> <<"u", "n", "d", "e", "f", "i", "n", "e", "d">>
      [] v.t = "null" -> <<"n", "u", "l", "l">>
      [] v.t = "nan" -> <<"N", "a", "N">>
      [] v.t = "num" -> NatToString(v.n)
      [] v.t = "str" -> v.s
      [] OTHER -> ObjectObject

\* a == b, the loose equality of JavaScript
LooseEquals(a, b) ==
    CASE a.t \in {"undef", "null"} -> b.t \in {"undef", "null"}
      [] b.t \in {"undef", "null"} -> FALSE
      [] a.t = "num" /\ b.t = "num" -> a.n = b.n
      [] a.t = "str" /\ b.t = "str" -> a.s = b.s
      [] a.t = "num" /\ b.t = "str" -> StringToNumber(b.s) = a
      [] a.t = "str" /\ b.t = "num" -> StringToNumber(a.s) = b
      [] OTHER -> FALSE

\* a > b on the results of Number(): false when either side is NaN
NumGreater(a, b) == a.t = "num" /\ b.t = "num" /\ a.n > b.n

(***************************************************************************)
(* Nodes: properties is the JSON object of a node, with undefined for a    *)
(* key it does not hold and an empty sequence for an absent array;         *)
(* a connection without buttonIndex holds -1, one without sourceHandle ""  *)
(***************************************************************************)
NoProperties ==
    [label |-> Undef, message |-> Undef, buttons |-> <<>>, listItems |-> <<>>,
     variableName |-> Undef, inputType |-> Undef, invalidMessage |-> Undef,
     variable |-> Undef, operator |-> Undef, value |-> Undef,
     action |-> Undef, tags |-> <<>>, url |-> Undef, responseVariable |-> Undef]

Conn(target) == [targetNodeId |-> target, buttonIndex |-> -1, sourceHandle |-> ""]

ButtonConn(index, target) ==
    [targetNodeId |-> target, buttonIndex |-> index, sourceHandle |-> ""]

HandleConn(handle, target) ==
    [targetNodeId |-> target, buttonIndex |-> -1, sourceHandle |-> handle]

(***************************************************************************)
(* FlowEngine.evaluateCondition                                            *)
(***************************************************************************)
evaluateCondition_gte(properties, context) ==
    LET variable == properties.variable
        operator == properties.operator
        value == properties.value
        contextValue == IF variable.t = "str" THEN Get(context, variable.s) ELSE Undef
        op == IF operator.t = "str" THEN operator.s ELSE <<>>
    IN  IF ~Truthy(variable) \/ ~Truthy(operator) THEN TRUE
        ELSE CASE op = <<"equals">> -> LooseEquals(contextValue, value)
               [] op = <<"not_equals">> -> ~LooseEquals(contextValue, value)
               [] op = <<"contains">> -> includes(String(contextValue), String(value))
               [] op = <<"greater_than">> ->
                    ~NumGreater(Number(value), Number(contextValue))
               [] op = <<"less_than">> -> NumGreater(Number(value), Number(contextValue))
               [] op = <<"exists">> -> contextValue.t \notin {"undef", "null"}
               [] op = <<"not_exists">> -> contextValue.t \in {"undef", "null"}
               [] OTHER -> TRUE

evaluateCondition(properties, context) ==
    LET variable == properties.variable
        operator == properties.operator
        value == properties.value
        contextValue == IF variable.t = "str" THEN Get(context, variable.s) ELSE Undef
        op == IF operator.t = "str" THEN operator.s ELSE <<>>
    IN  IF ~Truthy(variable) \/ ~Truthy(operator) THEN TRUE
        ELSE CASE op = <<"equals">> -> LooseEquals(contextValue, value)
               [] op = <<"not_equals">> -> ~LooseEquals(contextValue, value)
               [] op = <<"contains">> -> includes(String(contextValue), String(value))
               [] op = <<"greater_than">> -> NumGreater(Number(contextValue), Number(value))
               [] op = <<"less_than">> -> NumGreater(Number(value), Number(contextValue))
               [] op = <<"exists">> -> contextValue.t \notin {"undef", "null"}
               [] op = <<"not_exists">> -> contextValue.t \in {"undef", "null"}
               [] OTHER -> TRUE

(***************************************************************************)
(* Placeholder interpolation                                               *)
(***************************************************************************)
\* the length of the longest run of characters of class cs that starts at s[i]
RECURSIVE RunLength(_, _, _)
RunLength(s, i, cs) ==
    IF i <= Len(s) /\ s[i] \in cs THEN 1 + RunLength(s, i + 1, cs) ELSE 0

\* the characters a model string is made of
AllChars == WordChars \cup {"{", "}", ".", " ", "@", "[", "]", "\"", ":", ","}

\* the class [\w.]
PathChars == WordChars \cup {"."}

\* the class [^}]
NotBrace == AllChars \ {"}"}

\* /\{\{(cs+)\}\}/ matched at s[i]: the length of the group, 0 without a match
PlaceholderAt(s, i, cs) ==
    IF i + 1 <= Len(s) /\ s[i] = "{" /\ s[i + 1] = "{"
    THEN LET r == RunLength(s, i + 2, cs)
         IN  IF r >= 1 /\ i + 3 + r <= Len(s) /\ s[i + 2 + r] = "}" /\ s[i + 3 + r] = "}"
             THEN r ELSE 0
    ELSE 0

\* String.prototype.split('.')
RECURSIVE split(_)
split(s) ==
    IF \E i \in 1..Len(s) : s[i] = "."
    THEN LET d == CHOOSE i \in 1..Len(s) :
                     s[i] = "." /\ \A j \in 1..(i - 1) : s[j] # "."
         IN  <<SubSeq(s, 1, d - 1)>> \o split(SubSeq(s, d + 1, Len(s)))
    ELSE <<s>>

\* JSON.stringify of a value
RECURSIVE JSONstringify(_)
RECURSIVE JSONentries(_, _)
JSONentries(o, i) ==
    IF i > Len(o) THEN <<>>
    ELSE (IF i > 1 THEN <<",">> ELSE <<>>)
         \o <<"\"">> \o o[i].k \o <<"\"", ":">> \o JSONstringify(o[i].v)
         \o JSONentries(o, i + 1)

JSONstringify(v) ==
    CASE v.t = "str" -> <<"\"">> \o v.s \o <<"\"">>
      [] v.t = "obj" -> <<"{">> \o JSONentries(v.o, 1) \o <<"}">>
      [] OTHER -> String(v)

\* FlowEngine.interpolateVariables: the callback of text.replace
EngineReplacement(match, varName, context) ==
    LET value == Get(context, varName)
    IN  IF value.t \notin {"undef", "null"} THEN String(value) ELSE match

RECURSIVE EngineReplaceFrom(_, _, _)
EngineReplaceFrom(text, i, context) ==
    IF i > Len(text) THEN <<>>
    ELSE LET r == PlaceholderAt(text, i, WordChars)
         IN  IF r > 0
             THEN EngineReplacement(SubSeq(text, i, i + 3 + r),
                                    SubSeq(text, i + 2, i + 1 + r), context)
                  \o EngineReplaceFrom(text, i + 4 + r, context)
             ELSE <<text[i]>> \o EngineReplaceFrom(text, i + 1, context)

\* FlowEngine.interpolateVariables(text, context), text.replace(/\{\{(\w+)\}\}/g, ..)
interpolateVariables(text, context) ==
    IF text = <<>> THEN text ELSE EngineReplaceFrom(text, 1, context)

\* conversationController interpolateVariables: the walk over the keys of a path
RECURSIVE WalkPath(_, _, _)
WalkPath(value, keys, i) ==
    IF i > Len(keys) THEN [found |-> TRUE, value |-> value]
    ELSE IF HasKey(value, keys[i]) THEN WalkPath(Get(value, keys[i]), keys, i + 1)
    ELSE [found |-> FALSE, value |-> Undef]

\* conversationController interpolateVariables: the callback of text.replace
ConversationReplacement(match, varPath, context) ==
    LET w == WalkPath(context, split(varPath), 1)
    IN  IF ~w.found THEN <<>>
        ELSE IF w.value.t \notin {"undef", "null"}
        THEN (IF w.value.t = "obj" THEN JSONstringify(w.value) ELSE String(w.value))
        ELSE <<>>

RECURSIVE ConversationReplaceFrom(_, _, _)
ConversationReplaceFrom(text, i, context) ==
    IF i > Len(text) THEN <<>>
    ELSE LET r == PlaceholderAt(text, i, PathChars)
         IN  IF r > 0
             THEN ConversationReplacement(SubSeq(text, i, i + 3 + r),
                                          SubSeq(text, i + 2, i + 1 + r), context)
                  \o ConversationReplaceFrom(text, i + 4 + r, context)
             ELSE <<text[i]>> \o ConversationReplaceFrom(text, i + 1, context)

\* conversationController interpolateVariables(text, context),
\* text.replace(/\{\{([\w.]+)\}\}/g, ..)
conversationInterpolateVariables(text, context) ==
    IF text = <<>> THEN text ELSE ConversationReplaceFrom(text, 1, context)

\* webhookController replacePlaceholders: /\{\{variableName\.([^}]+)\}\}/ matched at
\* text[i]: the length of the group, 0 without a match
NamedPlaceholderAt(text, i, variableName) ==
    LET n == Len(variableName)
    IN  IF /\ i + 2 + n <= Len(text)
           /\ text[i] = "{" /\ text[i + 1] = "{"
           /\ SubSeq(text, i + 2, i + 1 + n) = variableName
           /\ text[i + 2 + n] = "."
        THEN LET r == RunLength(text, i + 3 + n, NotBrace)
             IN  IF /\ r >= 1 /\ i + 4 + n + r <= Len(text)
                    /\ text[i + 3 + n + r] = "}" /\ text[i + 4 + n + r] = "}"
                 THEN r ELSE 0
        ELSE 0

\* webhookController replacePlaceholders: the callback of text.replace
PlaceholderReplacement(match, path, data) ==
    LET w == WalkPath(data, split(path), 1)
    IN  IF ~w.found THEN match
        ELSE IF w.value.t # "undef" THEN String(w.value) ELSE match

RECURSIVE PlaceholderReplaceFrom(_, _, _, _)
PlaceholderReplaceFrom(text, i, variableName, data) ==
    IF i > Len(text) THEN <<>>
    ELSE LET r == NamedPlaceholderAt(text, i, variableName)
             n == Len(variableName)
         IN  IF r > 0
             THEN PlaceholderReplacement(SubSeq(text, i, i + 4 + n + r),
                                         SubSeq(text, i + 3 + n, i + 2 + n + r), data)
                  \o PlaceholderReplaceFrom(text, i + 5 + n + r, variableName, data)
             ELSE <<text[i]>> \o PlaceholderReplaceFrom(text, i + 1, variableName, data)

\* webhookController replacePlaceholders(text, variableName, data)
replacePlaceholders(text, variableName, data) ==
    IF text = <<>> THEN text ELSE PlaceholderReplaceFrom(text, 1, variableName, data)


(***************************************************************************)
(* The store after construction: every table empty                         *)
(***************************************************************************)
StoreInit ==
    /\ contact_sessions = <<>>
    /\ contacts = <<>>
    /\ message_logs = <<>>
    /\ error_logs = <<>>
    /\ now = 0

(***************************************************************************)
(* evaluateCondition on its own: every configuration and context value of  *)
(* the sets below                                                          *)
(***************************************************************************)
score == <<"s", "c", "o", "r", "e">>

CondVariables == {Undef, Str(<<>>), Str(score)}

CondOperators ==
    {Undef, Str(<<"equals">>), Str(<<"not_equals">>), Str(<<"contains">>),
     Str(<<"greater_than">>), Str(<<"less_than">>), Str(<<"exists">>),
     Str(<<"not_exists">>), Str(<<"matches">>)}

CondValues ==
    {Undef, Null, Num(3), Num(5), Str(<<"5">>), Str(<<"3">>), Str(<<>>), Str(<<"a">>)}

\* the value of score in the context; Undef stands for a context without the key
CondContextValues ==
    {Undef, Null, Num(0), Num(5), Num(12), Str(<<"5">>), Str(<<" ", "5">>),
     Str(<<"a", "b">>), Str(<<>>)}

CondProperties(variable, operator, value) ==
    [NoProperties EXCEPT !.variable = variable, !.operator = operator, !.value = value]

CondContext(cv) ==
    IF cv = Undef THEN Obj(<<>>) ELSE Obj(<<[k |-> score, v |-> cv]>>)

CondInit ==
    /\ StoreInit
    /\ \E variable \in CondVariables, operator \in CondOperators,
          value \in CondValues, cv \in CondContextValues :
            call = [fn |-> "evaluateCondition",
                    properties |-> CondProperties(variable, operator, value),
                    context |-> CondContext(cv),
                    done |-> FALSE, result |-> FALSE]

CallEvaluateCondition ==
    /\ call.fn = "evaluateCondition"
    /\ ~call.done
    /\ call' = [call EXCEPT !.done = TRUE,
                            !.result = evaluateCondition(call.properties, call.context)]
    /\ UNCHANGED store

CondNext == CallEvaluateCondition

SpecCond == CondInit /\ [][CondNext]_vars

\* the inputs of a finished evaluateCondition call
CondCalled == call.fn = "evaluateCondition" /\ call.done

CondVariable == call.properties.variable

CondOperator == call.properties.operator

CondLiteral == call.properties.value

CondContextValue == Get(call.context, CondVariable.s)

CondConfigured == Truthy(CondVariable) /\ Truthy(CondOperator)

\* the same value of the same type (undefined is the value of an absent key)
SameValue(a, b) == a = b

\* equal once both sides are brought to one type: null and undefined equal each
\* other and nothing else, a number and a string are compared as numbers
EqualAfterCoercion(a, b) ==
    \/ a.t \in {"undef", "null"} /\ b.t \in {"undef", "null"}
    \/ a.t = b.t /\ a = b
    \/ a.t = "num" /\ b.t = "str" /\ Number(b) = a
    \/ a.t = "str" /\ b.t = "num" /\ Number(a) = b

\* what the claim says about every operator but equals and not_equals
CondOtherOperators ==
    /\ CondOperator.s = <<"contains">> =>
         (call.result <=> includes(String(CondContextValue), String(CondLiteral)))
    /\ CondOperator.s = <<"greater_than">> =>
         (call.result <=>
            LET a == Number(CondContextValue)
                b == Number(CondLiteral)
            IN  a # NaN /\ b # NaN /\ a.n > b.n)
    /\ CondOperator.s = <<"less_than">> =>
         (call.result <=>
            LET a == Number(CondContextValue)
                b == Number(CondLiteral)
            IN  a # NaN /\ b # NaN /\ a.n < b.n)
    /\ CondOperator.s = <<"exists">> =>
         (call.result <=> CondContextValue # Null /\ CondContextValue # Undef)
    /\ CondOperator.s = <<"not_exists">> =>
         (call.result <=> ~(CondContextValue # Null /\ CondContextValue # Undef))

\* C8 as stated: for every configured {variable, operator, value} and context,
\* equals / not_equals return whether the context value equals the literal (the
\* same value), contains whether the stringified context value contains the
\* stringified literal, greater_than / less_than the comparison of the numeric
\* coercions, exists / not_exists whether the context value is neither null nor
\* undefined.
C8_ConditionSemanticsAsStated ==
    (CondCalled /\ CondConfigured) =>
        /\ CondOperator.s = <<"equals">> =>
             (call.result <=> SameValue(CondContextValue, CondLiteral))
        /\ CondOperator.s = <<"not_equals">> =>
             (call.result <=> ~SameValue(CondContextValue, CondLiteral))
        /\ CondOtherOperators

\* C8 amended: equals / not_equals compare with JavaScript's loose equality (a
\* number equals the string that parses to it, null equals undefined); the other
\* operators are as stated.  With context {score: 5}, greater_than 3 and equals 5
\* are true, and not_exists on an absent variable is true.
C8_ConditionSemantics ==
    (CondCalled /\ CondConfigured) =>
        /\ CondOperator.s = <<"equals">> =>
             (call.result <=> EqualAfterCoercion(CondContextValue, CondLiteral))
        /\ CondOperator.s = <<"not_equals">> =>
             (call.result <=> ~EqualAfterCoercion(CondContextValue, CondLiteral))
        /\ CondOtherOperators

\* C8 witness: context {score: 5} and {variable: score, operator: greater_than,
\* value: 3} evaluated to true
C8_Witness ==
    /\ CondCalled
    /\ CondVariable = Str(score)
    /\ CondContextValue = Num(5)
    /\ CondOperator = Str(<<"greater_than">>)
    /\ CondLiteral = Num(3)
    /\ call.result = TRUE


(***************************************************************************)
(* The three interpolation helpers on their own: "hi " followed by a       *)
(* placeholder, well formed or not, over a path of up to MaxPathLen        *)
(* characters, against flat and nested contexts                            *)
(***************************************************************************)
MaxPathLen == 3

PathAlphabet == {"a", "b", "c", "."}

RECURSIVE SeqsUpTo(_, _)
SeqsUpTo(S, n) ==
    IF n = 0 THEN {<<>>}
    ELSE LET shorter == SeqsUpTo(S, n - 1)
         IN  shorter \cup {Append(q, x) : q \in shorter, x \in S}

InterpPaths == SeqsUpTo(PathAlphabet, MaxPathLen)

InterpOpen == {<<"{", "{">>, <<"{">>, <<"{", "{", "{">>}

InterpClose == {<<"}", "}">>, <<"}">>, <<>>}

Hi == <<"h", "i", " ">>

InterpContexts ==
    {Obj(<<>>),
     Obj(<<[k |-> <<"a">>, v |-> Str(<<"X">>)]>>),
     Obj(<<[k |-> <<"a">>, v |-> Num(5)]>>),
     Obj(<<[k |-> <<"a">>, v |-> Null]>>),
     Obj(<<[k |-> <<"a">>, v |-> Obj(<<[k |-> <<"b">>, v |-> Str(<<"X">>)]>>)]>>),
     Obj(<<[k |-> <<"a">>, v |-> Obj(<<[k |-> <<"b">>, v |-> Null]>>)]>>)}

InterpFunctions == {"FlowEngine", "conversationController", "webhookController"}

InterpInit ==
    /\ StoreInit
    /\ \E open \in InterpOpen, path \in InterpPaths, close \in InterpClose,
          context \in InterpContexts :
            call = [fn |-> "interpolate", by |-> "nobody",
                    text |-> Hi \o open \o path \o close,
                    path |-> path, wellFormed |-> (open = <<"{", "{">> /\ close = <<"}", "}">>),
                    context |-> context, result |-> <<>>]

\* FlowEngine.interpolateVariables(text, context)
CallEngineInterpolate ==
    /\ call.fn = "interpolate" /\ call.by = "nobody"
    /\ call' = [call EXCEPT !.by = "FlowEngine",
                            !.result = interpolateVariables(call.text, call.context)]
    /\ UNCHANGED store

\* conversationController's interpolateVariables(text, context)
CallConversationInterpolate ==
    /\ call.fn = "interpolate" /\ call.by = "nobody"
    /\ call' = [call EXCEPT !.by = "conversationController",
                            !.result = conversationInterpolateVariables(call.text,
                                                                        call.context)]
    /\ UNCHANGED store

\* webhookController's replacePlaceholders(text, "a", context.a): the placeholders
\* of the response variable a against the response stored under it
CallReplacePlaceholders ==
    /\ call.fn = "interpolate" /\ call.by = "nobody"
    /\ call' = [call EXCEPT !.by = "webhookController",
                            !.result = replacePlaceholders(call.text, <<"a">>,
                                                           Get(call.context, <<"a">>))]
    /\ UNCHANGED store

InterpNext ==
    \/ CallEngineInterpolate
    \/ CallConversationInterpolate
    \/ CallReplacePlaceholders

SpecInterp == InterpInit /\ [][InterpNext]_vars

\* the keys of a path: the runs of letters between its dots
PathKeys == split(call.path)

\* a placeholder {{k1.k2...}}: well formed braces around non-empty keys
IsPlaceholder ==
    /\ call.wellFormed
    /\ call.path # <<>>
    /\ \A i \in 1..Len(PathKeys) : PathKeys[i] # <<>>

\* the value the context holds at the path, walking key by key
RECURSIVE ValueAt(_, _)
ValueAt(value, keys) ==
    IF keys = <<>> THEN value
    ELSE IF value.t = "obj" /\ \E i \in 1..Len(value.o) : value.o[i].k = Head(keys)
    THEN ValueAt((CHOOSE e \in {value.o[i] : i \in 1..Len(value.o)} : e.k = Head(keys)).v,
                 Tail(keys))
    ELSE Undef

\* some key of the path is absent: the root key, or a later segment
RECURSIVE SegmentMissing(_, _)
SegmentMissing(value, keys) ==
    /\ keys # <<>>
    /\ \/ value.t # "obj"
       \/ \A i \in 1..Len(value.o) : value.o[i].k # Head(keys)
       \/ SegmentMissing(ValueAt(value, <<Head(keys)>>), Tail(keys))

\* C9: a placeholder with a nested path is resolved by walking the context key by
\* key, in every message the engine sends: the text "hi {{a.b}}" against
\* {a: {b: "X"}} becomes "hi X".
C9_NestedPathResolved ==
    (/\ call.fn = "interpolate"
     /\ call.by \in {"FlowEngine", "conversationController"}
     /\ IsPlaceholder
     /\ Len(PathKeys) > 1
     /\ ValueAt(call.context, PathKeys).t = "str")
        => call.result = Hi \o ValueAt(call.context, PathKeys).s

\* C10: a placeholder whose root key or any path segment is missing is replaced by
\* the empty string and its text is never left in the output: "hi {{a.c}}" against
\* {a: {b: "X"}} becomes "hi ".
C10_MissingPlaceholderRemoved ==
    (/\ call.fn = "interpolate"
     /\ call.by # "nobody"
     /\ IsPlaceholder
     /\ SegmentMissing(call.context, PathKeys))
        => call.result = Hi


(***************************************************************************)
(* The flows and nodes of the store.  A text without braces may be written *)
(* as one element of its sequence; inbound texts and trigger values are    *)
(* written character by character.                                         *)
(***************************************************************************)
Phones == {"p1"}

FlowIds == {"F1", "F2", "F3", "F4", "F5", "F6", "F7", "F8", "F9", "F10", "F11", "F12",
            "F13", "F14", "F15", "F16", "F17", "F18", "F19", "F20", "F21", "F22",
            "F23", "F24"}

FlowRow(id, is_active, trigger_type, trigger_value, first_node_id) ==
    [id |-> id, is_active |-> is_active, trigger_type |-> trigger_type,
     trigger_value |-> trigger_value, first_node_id |-> first_node_id]

\* the rows of table flows; first_node_id "" is null
Flows ==
    [f \in FlowIds |->
        CASE f = "F1" -> FlowRow("F1", TRUE, "keyword", Str(<<"h", "i">>), "s0")
          [] f = "F2" -> FlowRow("F2", TRUE, "keyword", Str(<<"H", "i">>), "q1")
          [] f = "F3" -> FlowRow("F3", FALSE, "keyword", Str(<<"o", "k">>), "k1")
          [] f = "F4" -> FlowRow("F4", TRUE, "manual", Str(<<"o", "k">>), "y1")
          [] f = "F5" -> FlowRow("F5", TRUE, "keyword", Str(<<"g", "o">>), "")
          [] f = "F6" -> FlowRow("F6", TRUE, "keyword", Str(<<"g", "o">>), "z1")
          [] f = "F7" -> FlowRow("F7", TRUE, "keyword", Str(<<>>), "k1")
          [] f = "F8" -> FlowRow("F8", TRUE, "manual", Null, "e1")
          [] f = "F9" -> FlowRow("F9", TRUE, "manual", Null, "n1")
          [] f = "F10" -> FlowRow("F10", TRUE, "manual", Null, "d1")
          [] f = "F11" -> FlowRow("F11", TRUE, "manual", Null, "l1")
          [] f = "F12" -> FlowRow("F12", TRUE, "keyword", Str(<<"w">>), "w1")
          \* F13 has no nodes: its first node is a node of F3
          [] f = "F13" -> FlowRow("F13", TRUE, "manual", Null, "k1")
          [] f = "F14" -> FlowRow("F14", TRUE, "manual", Null, "r1")
          [] f = "F15" -> FlowRow("F15", TRUE, "manual", Null, "a1")
          [] f = "F16" -> FlowRow("F16", TRUE, "manual", Null, "g0")
          [] f = "F17" -> FlowRow("F17", TRUE, "manual", Null, "v1")
          [] f = "F18" -> FlowRow("F18", TRUE, "manual", Null, "x1")
          [] f = "F19" -> FlowRow("F19", TRUE, "manual", Null, "ta1")
          [] f = "F20" -> FlowRow("F20", TRUE, "manual", Null, "tr1")
          [] f = "F21" -> FlowRow("F21", TRUE, "manual", Null, "tb1")
          [] f = "F22" -> FlowRow("F22", TRUE, "manual", Null, "te1")
          [] f = "F23" -> FlowRow("F23", TRUE, "manual", Null, "cn1")
          [] OTHER    -> FlowRow("F24", TRUE, "manual", Null, "co1")]

Welcome == <<"Welcome ", "{", "{", "n", "a", "m", "e", "}", "}">>

EnterANumber == <<"Enter a number">>

name == <<"n", "a", "m", "e">>

mail == <<"m", "a", "i", "l">>

Node(id, flow, type, properties, connections) ==
    [id |-> id, flow_id |-> flow, type |-> type, properties |-> properties,
     connections |-> connections]

Button(text) == [text |-> text]

\* the rows of table nodes
NodeRows ==
    { \* F1: start -> http -> message -> input -> condition -> button | condition
      Node("s0", "F1", "start", NoProperties, <<Conn("h1")>>),
      Node("h1", "F1", "http",
           [NoProperties EXCEPT !.url = Str(<<"https://api">>)], <<Conn("m1")>>),
      Node("m1", "F1", "message",
           [NoProperties EXCEPT !.label = Str(Welcome)], <<Conn("i1")>>),
      Node("i1", "F1", "input",
           [NoProperties EXCEPT !.label = Str(<<"Your score?">>),
                                !.variableName = Str(score),
                                !.inputType = Str(<<"number">>),
                                !.invalidMessage = Str(EnterANumber)],
           <<Conn("c1")>>),
      Node("c1", "F1", "condition",
           [NoProperties EXCEPT !.variable = Str(score),
                                !.operator = Str(<<"greater_than">>),
                                !.value = Num(3)],
           <<HandleConn("false", "c2"), HandleConn("true", "b1")>>),
      Node("b1", "F1", "button",
           [NoProperties EXCEPT !.label = Str(<<"Pick one">>),
                                !.buttons = <<Button(<<"A">>), Button(<<"B">>),
                                              Button(<<"C">>)>>],
           <<ButtonConn(0, "mA"), ButtonConn(1, "mB"), ButtonConn(2, "mC")>>),
      Node("mA", "F1", "message", [NoProperties EXCEPT !.label = Str(<<"A">>)], <<>>),
      Node("mB", "F1", "message", [NoProperties EXCEPT !.label = Str(<<"B">>)], <<>>),
      Node("mC", "F1", "message", [NoProperties EXCEPT !.label = Str(<<"C">>)], <<>>),
      \* a condition without a variable
      Node("c2", "F1", "condition",
           [NoProperties EXCEPT !.operator = Str(<<"equals">>), !.value = Num(9)],
           <<HandleConn("false", "mA"), HandleConn("true", "mB")>>),
      \* F2: a message with two buttons, whose connections are not in button order
      Node("q1", "F2", "message",
           [NoProperties EXCEPT !.label = Str(<<"Yes or no?">>),
                                !.buttons = <<Button(<<"Yes">>), Button(<<"No">>)>>],
           <<ButtonConn(1, "qN"), ButtonConn(0, "c3")>>),
      Node("qN", "F2", "message", [NoProperties EXCEPT !.label = Str(<<"No">>)], <<>>),
      \* a condition with an operator evaluateCondition does not know
      Node("c3", "F2", "condition",
           [NoProperties EXCEPT !.variable = Str(score),
                                !.operator = Str(<<"matches">>),
                                !.value = Num(9)],
           <<HandleConn("false", "qN"), HandleConn("true", "qY")>>),
      Node("qY", "F2", "message", [NoProperties EXCEPT !.label = Str(<<"Yes">>)], <<>>),
      \* F3 asks for a name; F4 and F6 are one closing message; F5 has no first
      \* node, and the first node of F7 is not among its nodes
      Node("k1", "F3", "input",
           [NoProperties EXCEPT !.label = Str(<<"Your name?">>),
                                !.variableName = Str(name)],
           <<Conn("k2")>>),
      Node("k2", "F3", "message",
           [NoProperties EXCEPT !.label = Str(<<"Bye ", "{", "{", "n", "a", "m", "e",
                                                "}", "}">>)],
           <<>>),
      Node("y1", "F4", "message", [NoProperties EXCEPT !.label = Str(<<"Y">>)], <<>>),
      Node("z1", "F6", "message", [NoProperties EXCEPT !.label = Str(<<"Z">>)], <<>>),
      Node("z7", "F7", "message", [NoProperties EXCEPT !.label = Str(<<"Z">>)], <<>>),
      \* F8 and F9: a message and an input whose column properties is null
      Node("e1", "F8", "message", Null, <<Conn("e2")>>),
      Node("e2", "F8", "message", [NoProperties EXCEPT !.label = Str(<<"Bye">>)], <<>>),
      Node("n1", "F9", "input", Null, <<>>),
      \* F10: a connection to a node that does not exist
      Node("d1", "F10", "message",
           [NoProperties EXCEPT !.label = Str(<<"Hello">>)], <<Conn("gone")>>),
      \* F11: a list of two rows
      Node("l1", "F11", "list",
           [NoProperties EXCEPT !.label = Str(<<"Choose">>),
                                !.listItems = <<[title |-> <<"One">>],
                                                [title |-> <<"Two">>]>>],
           <<ButtonConn(0, "lA"), ButtonConn(1, "lB")>>),
      Node("lA", "F11", "message", [NoProperties EXCEPT !.label = Str(<<"One">>)], <<>>),
      Node("lB", "F11", "message", [NoProperties EXCEPT !.label = Str(<<"Two">>)], <<>>),
      \* F12: a webhook whose endpoint is down, then a closing message
      Node("w1", "F12", "webhook",
           [NoProperties EXCEPT !.url = Str(<<"https://down">>)], <<Conn("w2")>>),
      Node("w2", "F12", "message", [NoProperties EXCEPT !.label = Str(<<"Done">>)], <<>>),
      \* F14: a message and a delay connected in a circle
      Node("r1", "F14", "message", [NoProperties EXCEPT !.label = Str(<<"Again">>)],
           <<Conn("r2")>>),
      Node("r2", "F14", "delay", NoProperties, <<Conn("r1")>>),
      \* F15: an input for an e-mail address, with nothing after it
      Node("a1", "F15", "input",
           [NoProperties EXCEPT !.label = Str(<<"Your e-mail?">>),
                                !.variableName = Str(mail),
                                !.inputType = Str(<<"email">>)],
           <<>>),
      \* F16: a message, then a handoff that has a connection
      Node("g0", "F16", "message", [NoProperties EXCEPT !.label = Str(<<"Hi">>)],
           <<Conn("g1")>>),
      Node("g1", "F16", "handoff", [NoProperties EXCEPT !.message = Str(<<"Wait">>)],
           <<Conn("g2")>>),
      Node("g2", "F16", "message", [NoProperties EXCEPT !.label = Str(<<"Never">>)],
           <<>>),
      \* F17: a webhook whose endpoint answers, then a closing message
      Node("v1", "F17", "webhook",
           [NoProperties EXCEPT !.url = Str(<<"https://up">>)], <<Conn("v2")>>),
      Node("v2", "F17", "message", [NoProperties EXCEPT !.label = Str(<<"Up">>)], <<>>),
      \* F18: an http node that names a response variable, then a message that
      \* shows the variable
      Node("x1", "F18", "http",
           [NoProperties EXCEPT !.url = Str(<<"https://api">>),
                                !.responseVariable = Str(<<"r", "e", "s">>)],
           <<Conn("x2")>>),
      Node("x2", "F18", "message",
           [NoProperties EXCEPT !.label = Str(<<"{", "{", "r", "e", "s", "}", "}">>)],
           <<>>),
      \* F19: a tag node that adds tags, one of them twice, then a message
      Node("ta1", "F19", "tag",
           [NoProperties EXCEPT !.action = Str(<<"add">>), !.tags = <<"a", "b", "a">>],
           <<Conn("ta2")>>),
      Node("ta2", "F19", "message", [NoProperties EXCEPT !.label = Str(<<"Tagged">>)],
           <<>>),
      \* F20: a tag node that removes tags and has no connection
      Node("tr1", "F20", "tag",
           [NoProperties EXCEPT !.action = Str(<<"remove">>), !.tags = <<"b", "c">>],
           <<>>),
      \* F21: a tag node that adds, then one that removes
      Node("tb1", "F21", "tag",
           [NoProperties EXCEPT !.action = Str(<<"add">>), !.tags = <<"c">>],
           <<Conn("tb2")>>),
      Node("tb2", "F21", "tag",
           [NoProperties EXCEPT !.action = Str(<<"remove">>), !.tags = <<"a">>],
           <<Conn("tb3")>>),
      Node("tb3", "F21", "message", [NoProperties EXCEPT !.label = Str(<<"Done">>)],
           <<>>),
      \* F22: a tag node that adds no tag
      Node("te1", "F22", "tag", [NoProperties EXCEPT !.action = Str(<<"add">>)],
           <<Conn("te2")>>),
      Node("te2", "F22", "message", [NoProperties EXCEPT !.label = Str(<<"None">>)],
           <<>>),
      \* F23: a condition that holds of the initial data and has a connection for
      \* false alone
      Node("cn1", "F23", "condition",
           [NoProperties EXCEPT !.variable = Str(name),
                                !.operator = Str(<<"equals">>),
                                !.value = Str(<<"Bo">>)],
           <<HandleConn("false", "cn2")>>),
      Node("cn2", "F23", "message", [NoProperties EXCEPT !.label = Str(<<"Not Bo">>)],
           <<>>),
      \* F24: a condition that does not hold and lists its connection for true first
      Node("co1", "F24", "condition",
           [NoProperties EXCEPT !.variable = Str(name),
                                !.operator = Str(<<"equals">>),
                                !.value = Str(<<"Al">>)],
           <<HandleConn("true", "co2"), HandleConn("false", "co3")>>),
      Node("co2", "F24", "message", [NoProperties EXCEPT !.label = Str(<<"Al">>)],
           <<>>),
      Node("co3", "F24", "message", [NoProperties EXCEPT !.label = Str(<<"Not Al">>)],
           <<>>) }

NodeIds == {n.id : n \in NodeRows}

\* supabase.from('nodes').select('*').eq('flow_id', flowId)
NodesOf(flowId) == {n \in NodeRows : n.flow_id = flowId}

\* allNodes.find(n => n.id === nodeId); the result is used only when HasNode holds
HasNode(nodes, nodeId) == \E n \in nodes : n.id = nodeId

FindNode(nodes, nodeId) == CHOOSE n \in nodes : n.id = nodeId


(***************************************************************************)
(* The tables, passed through the engine as one record db                  *)
(***************************************************************************)
\* thrown is not a table: it lists, for the call being handled, the places where
\* an exception was thrown, in the order they were thrown
Db == [sessions |-> contact_sessions, contacts |-> contacts,
       logs |-> message_logs, errors |-> error_logs, thrown |-> <<>>]

\* the hours of inactivity after which getSession expires a session
SESSION_TIMEOUT_HOURS == 24

\* the values the CHECK constraint of contact_sessions.status admits
SessionStatusCheck == {"active", "paused", "completed", "expired"}

NoSession == [id |-> 0]

\* a || b
Or(a, b) == IF Truthy(a) THEN a ELSE b

\* the rows of contacts with that phone number (phone_number is UNIQUE)
ContactIndex(db, phone) ==
    IF \E i \in 1..Len(db.contacts) : db.contacts[i].phone_number = phone
    THEN CHOOSE i \in 1..Len(db.contacts) : db.contacts[i].phone_number = phone
    ELSE 0

\* FlowEngine.logError
logError(db, phoneNumber, context, message) ==
    [db EXCEPT !.errors = Append(@, [phone_number |-> phoneNumber, context |-> context,
                                       error_message |-> message])]

\* an exception is thrown at the place named, while the session of that id is
\* executed (0 outside executeNode)
ThrowIn(db, place, sessionId) ==
    [db EXCEPT !.thrown = Append(@, [place |-> place, session |-> sessionId])]

Throw(db, place) == ThrowIn(db, place, 0)

TypeError == "TypeError"

\* FlowEngine.endSession: the update of status is refused by the CHECK constraint
\* for a status it does not admit.  ended_at and the contact's last_interaction_at,
\* which endSession also writes, are read nowhere and are left out of the rows.
endSession(db, sessionId, status, t) ==
    IF status \in SessionStatusCheck
    THEN [db EXCEPT !.sessions[sessionId].status = status]
    ELSE db

ActiveSessionIndex_paused(db, phoneNumber) ==
    LET rows == {i \in 1..Len(db.sessions) :
                    /\ db.sessions[i].phone_number = phoneNumber
                    /\ db.sessions[i].status \in {"active", "paused"}}
    IN  IF rows = {} THEN 0 ELSE CHOOSE i \in rows : \A j \in rows : j <= i

\* the query of getSession: the newest row with that phone number and status
\* active, 0 without one (rows are kept in order of created_at)
ActiveSessionIndex(db, phoneNumber) ==
    LET rows == {i \in 1..Len(db.sessions) :
                    /\ db.sessions[i].phone_number = phoneNumber
                    /\ db.sessions[i].status = "active"}
    IN  IF rows = {} THEN 0 ELSE CHOOSE i \in rows : \A j \in rows : j <= i

getSession_inclusive(db, phoneNumber, t) ==
    LET i == ActiveSessionIndex(db, phoneNumber)
    IN  IF i = 0 THEN [db |-> db, session |-> NoSession]
        ELSE IF t - db.sessions[i].last_interaction_at >= SESSION_TIMEOUT_HOURS
        THEN [db |-> endSession(db, i, "expired", t), session |-> NoSession]
        ELSE [db |-> db, session |-> db.sessions[i]]

\* FlowEngine.getSession: [db, session], session NoSession for null
getSession(db, phoneNumber, t) ==
    LET i == ActiveSessionIndex(db, phoneNumber)
    IN  IF i = 0 THEN [db |-> db, session |-> NoSession]
        ELSE IF t - db.sessions[i].last_interaction_at > SESSION_TIMEOUT_HOURS
        THEN [db |-> endSession(db, i, "expired", t), session |-> NoSession]
        ELSE [db |-> db, session |-> db.sessions[i]]

\* FlowEngine.addExecutionTrace
addExecutionTrace(db, sessionId, nodeId, nodeType, action) ==
    [db EXCEPT !.sessions[sessionId].execution_trace =
        Append(@, [nodeId |-> nodeId, nodeType |-> nodeType, action |-> action])]

\* the ids sendMessage gives the buttons or list rows of a node
OptionIds(nodeId, tag, n) == [i \in 1..n |-> <<nodeId, tag>> \o NatToString(i - 1)]

Min(a, b) == IF a < b THEN a ELSE b

PleaseSelect == <<"Please select an option:">>

\* sendMessage, but a refused message leaves no row in message_logs
sendMessage_drop(db, to, content, nodeId, context, fails) ==
    LET row == Len(db.logs) + 1
        status == IF row \in fails THEN "failed" ELSE "sent"
        log(type, body, options) ==
            IF row \in fails THEN Throw(db, "axios.post") ELSE [db EXCEPT !.logs = Append(@,
                [phone_number |-> to, message_type |-> type, node |-> nodeId,
                 body |-> body, options |-> options, status |-> status,
                 wati_message_id |-> IF status = "sent" THEN row ELSE 0])]
        text == Or(content.label, content.message)
    IN  \* content.buttons of null throws: the catch of sendMessage logs the error
        IF content = Null
        THEN [Throw(db, "sendMessage") EXCEPT !.logs = Append(@,
                [phone_number |-> to, message_type |-> "error", node |-> "",
                 body |-> <<TypeError>>, options |-> <<>>, status |-> "failed",
                 wati_message_id |-> 0])]
        ELSE IF Len(content.buttons) > 0
        THEN log("interactive",
                 interpolateVariables(Or(text, Str(PleaseSelect)).s, context),
                 OptionIds(nodeId, "_btn_", Min(Len(content.buttons), 3)))
        ELSE IF Len(content.listItems) > 0
        THEN log("interactive",
                 interpolateVariables(Or(text, Str(PleaseSelect)).s, context),
                 OptionIds(nodeId, "_list_", Min(Len(content.listItems), 10)))
        ELSE IF Truthy(text)
        THEN log("text", interpolateVariables(text.s, context), <<>>)
        ELSE db

\* FlowEngine.sendMessage: the message handed to the provider and its row in
\* message_logs; fails holds the rows whose request the provider refuses
sendMessage(db, to, content, nodeId, context, fails) ==
    LET row == Len(db.logs) + 1
        status == IF row \in fails THEN "failed" ELSE "sent"
        log(type, body, options) ==
            [(IF row \in fails THEN Throw(db, "axios.post") ELSE db) EXCEPT !.logs = Append(@,
                [phone_number |-> to, message_type |-> type, node |-> nodeId,
                 body |-> body, options |-> options, status |-> status,
                 wati_message_id |-> IF status = "sent" THEN row ELSE 0])]
        text == Or(content.label, content.message)
    IN  \* content.buttons of null throws: the catch of sendMessage logs the error
        IF content = Null
        THEN [Throw(db, "sendMessage") EXCEPT !.logs = Append(@,
                [phone_number |-> to, message_type |-> "error", node |-> "",
                 body |-> <<TypeError>>, options |-> <<>>, status |-> "failed",
                 wati_message_id |-> 0])]
        ELSE IF Len(content.buttons) > 0
        THEN log("interactive",
                 interpolateVariables(Or(text, Str(PleaseSelect)).s, context),
                 OptionIds(nodeId, "_btn_", Min(Len(content.buttons), 3)))
        ELSE IF Len(content.listItems) > 0
        THEN log("interactive",
                 interpolateVariables(Or(text, Str(PleaseSelect)).s, context),
                 OptionIds(nodeId, "_list_", Min(Len(content.listItems), 10)))
        ELSE IF Truthy(text)
        THEN log("text", interpolateVariables(text.s, context), <<>>)
        ELSE db


(***************************************************************************)
(* FlowEngine.executeNode and the auto-advance                             *)
(***************************************************************************)
PleaseProvide == <<"Please provide your input:">>

Transferring == <<"Transferring you to an agent...">>

\* [...new Set([...currentTags, ...tags])]: the first occurrence of each tag
RECURSIVE Distinct(_)
Distinct(q) ==
    IF q = <<>> THEN <<>>
    ELSE LET rest == Distinct(SubSeq(q, 1, Len(q) - 1))
             last == q[Len(q)]
         IN  IF \E i \in 1..Len(rest) : rest[i] = last THEN rest ELSE Append(rest, last)

\* currentTags.filter(t => !tags.includes(t))
RECURSIVE Without(_, _)
Without(q, tags) ==
    IF q = <<>> THEN <<>>
    ELSE IF \E i \in 1..Len(tags) : tags[i] = Head(q) THEN Without(Tail(q), tags)
    ELSE <<Head(q)>> \o Without(Tail(q), tags)

\* the update of the tags, but add keeps duplicates
TagContact_append(db, phoneNumber, properties) ==
    LET c == ContactIndex(db, phoneNumber)
        currentTags == db.contacts[c].tags
    IN  IF Len(properties.tags) = 0 \/ c = 0 THEN db
        ELSE IF properties.action = Str(<<"add">>)
        THEN [db EXCEPT !.contacts[c].tags = currentTags \o properties.tags]
        ELSE IF properties.action = Str(<<"remove">>)
        THEN [db EXCEPT !.contacts[c].tags = Without(currentTags, properties.tags)]
        ELSE db

\* executeNode, case 'tag': the update of the contact's tags
TagContact(db, phoneNumber, properties) ==
    LET c == ContactIndex(db, phoneNumber)
        currentTags == db.contacts[c].tags
    IN  IF Len(properties.tags) = 0 \/ c = 0 THEN db
        ELSE IF properties.action = Str(<<"add">>)
        THEN [db EXCEPT !.contacts[c].tags = Distinct(currentTags \o properties.tags)]
        ELSE IF properties.action = Str(<<"remove">>)
        THEN [db EXCEPT !.contacts[c].tags = Without(currentTags, properties.tags)]
        ELSE db

\* node.connections?.find(c => c.sourceHandle === handle): its index, 0 without one
HandleConnection_first(node, handle) ==
    IF Len(node.connections) > 0 THEN 1 ELSE 0

HandleConnection(node, handle) ==
    LET hits == {i \in 1..Len(node.connections) : node.connections[i].sourceHandle = handle}
    IN  IF hits = {} THEN 0 ELSE CHOOSE i \in hits : \A j \in hits : i <= j

\* node.connections?.find(c => c.buttonIndex === index): its index, 0 without one
ButtonConnection_first(node, index) ==
    IF Len(node.connections) > 0 THEN 1 ELSE 0

ButtonConnection(node, index) ==
    LET hits == {i \in 1..Len(node.connections) : node.connections[i].buttonIndex = index}
    IN  IF hits = {} THEN 0 ELSE CHOOSE i \in hits : \A j \in hits : i <= j

\* the test of executeNode for a message that waits for a reply
hasInteractive(node) ==
    Len(node.properties.buttons) > 0 \/ Len(node.properties.listItems) > 0

\* the endpoints of webhook nodes whose request fails
Unreachable == {Str(<<"https://down">>)}

\* executeNode, case 'webhook': the request and its catch; no table is written
fireWebhook(db, properties) ==
    IF properties = Null THEN Throw(db, "webhook")
    ELSE IF Truthy(properties.url) /\ properties.url \in Unreachable
    THEN Throw(db, "webhook")
    ELSE db

\* the catch of executeNode
executeNodeCatch(db, session, t) ==
    endSession(logError(ThrowIn(db, "executeNode", session.id), session.phone_number,
                        "executeNode", TypeError),
               session.id, "error", t)

RECURSIVE executeNode(_, _, _, _, _, _)
RECURSIVE advanceToDefaultNext(_, _, _, _, _, _)

advanceToDefaultNext_stop(db, session, currentNode, allNodes, t, fails) ==
    endSession(db, session.id, "completed", t)

\* FlowEngine.advanceToDefaultNext
advanceToDefaultNext(db, session, currentNode, allNodes, t, fails) ==
    IF Len(currentNode.connections) > 0
    THEN executeNode(db, session, currentNode.connections[1].targetNodeId, allNodes,
                     t, fails)
    ELSE endSession(db, session.id, "completed", t)

\* FlowEngine.executeNode; session is the row the caller read, whose context the
\* node's texts are interpolated with
executeNode(db, session, nodeId, allNodes, t, fails) ==
    IF ~HasNode(allNodes, nodeId) THEN endSession(db, session.id, "error", t)
    ELSE
    LET node == FindNode(allNodes, nodeId)
        db1 == [db EXCEPT !.sessions[session.id].current_node_id = nodeId,
                          !.sessions[session.id].last_interaction_at = t]
        db2 == addExecutionTrace(db1, session.id, node.id, node.type, "node_entered")
    IN  CASE node.type \in {"message", "button", "list"} /\ node.properties = Null ->
               \* sendMessage catches its own TypeError; node.properties.buttons throws
               executeNodeCatch(sendMessage(db2, session.phone_number, Null, node.id,
                                            session.context, fails),
                                session, t)
          [] node.type \in {"input", "condition", "tag", "handoff"}
                /\ node.properties = Null ->
               executeNodeCatch(db2, session, t)
          [] node.type \in {"message", "button", "list"} ->
               LET db3 == sendMessage(db2, session.phone_number, node.properties,
                                      node.id, session.context, fails)
               IN  IF ~hasInteractive(node)
                   THEN advanceToDefaultNext(db3, session, node, allNodes, t, fails)
                   ELSE db3
          [] node.type = "input" ->
               LET promptMessage ==
                       interpolateVariables(
                           Or(Or(node.properties.label, node.properties.message),
                              Str(PleaseProvide)).s,
                           session.context)
               IN  sendMessage(db2, session.phone_number,
                               [NoProperties EXCEPT !.label = Str(promptMessage)],
                               node.id, session.context, fails)
          [] node.type = "condition" ->
               LET result == evaluateCondition(node.properties, session.context)
                   handle == IF result THEN "true" ELSE "false"
                   connection == HandleConnection(node, handle)
               IN  IF connection # 0
                   THEN executeNode(db2, session,
                                    node.connections[connection].targetNodeId,
                                    allNodes, t, fails)
                   ELSE advanceToDefaultNext(db2, session, node, allNodes, t, fails)
          [] node.type = "tag" ->
               advanceToDefaultNext(TagContact(db2, session.phone_number, node.properties),
                                    session, node, allNodes, t, fails)
          [] node.type = "handoff" ->
               LET handoffMessage ==
                       interpolateVariables(
                           Or(node.properties.message, Str(Transferring)).s,
                           session.context)
                   db3 == sendMessage(db2, session.phone_number,
                                      [NoProperties EXCEPT !.label = Str(handoffMessage)],
                                      node.id, session.context, fails)
               IN  endSession(db3, session.id, "paused", t)
          [] node.type = "webhook" ->
               advanceToDefaultNext(fireWebhook(db2, node.properties), session, node,
                                    allNodes, t, fails)
          \* delay, note and every other type
          [] OTHER -> advanceToDefaultNext(db2, session, node, allNodes, t, fails)

advanceToNode_skip(db, session, nextNodeId, allNodes, t, fails) == db

\* FlowEngine.advanceToNode
advanceToNode(db, session, nextNodeId, allNodes, t, fails) ==
    executeNode(db, session, nextNodeId, allNodes, t, fails)


(***************************************************************************)
(* FlowEngine.processCurrentNodeInput                                      *)
(***************************************************************************)
InvalidInput == <<"Invalid input. Please try again.">>

Whitespace == {" "}

\* /^[^\s@]+@[^\s@]+\.[^\s@]+$/.test(text)
IsEmail(text) ==
    \E i \in 2..Len(text), j \in 4..(Len(text) - 1) :
        /\ text[i] = "@" /\ text[j] = "." /\ i + 1 < j
        /\ \A k \in (1..Len(text)) \ {i, j} : text[k] \notin Whitespace \cup {"@"}

\* the value an input node captures from the text, null for an invalid input
capturedValue_lenient(properties, text) ==
    IF Truthy(text) THEN text ELSE Null

capturedValue(properties, text) ==
    LET inputType == Or(properties.inputType, Str(<<"text">>))
    IN  CASE inputType = Str(<<"text">>) /\ Truthy(text) -> text
          [] inputType = Str(<<"number">>) /\ Truthy(text) /\ Number(text) # NaN ->
               Number(text)
          [] inputType = Str(<<"email">>) /\ Truthy(text) /\ IsEmail(String(text)) -> text
          [] inputType = Str(<<"phone">>) /\ Truthy(text) -> text
          [] OTHER -> Null

\* payload.match(/<tag>(\d+)$/) and parseInt of its group: -1 without a match
ParseIndex(payload, tag) ==
    LET hits == {k \in 1..(Len(payload) - 1) :
                    /\ payload[k] = tag
                    /\ \A i \in (k + 1)..Len(payload) : payload[i] \in DigitChars}
    IN  IF hits = {} THEN -1
        ELSE LET k == CHOOSE k \in hits : \A j \in hits : k <= j
             IN  DigitsValue(SubSeq(payload, k + 1, Len(payload)))

\* what processCurrentNodeInput resolves before it writes: the next node id ("" for
\* null), the variable captured, the trace entry added, and whether it returns
\* early after a retry message (retry) or without doing anything (ignored)
Resolution(next, variable, value, trace) ==
    [next |-> next, variable |-> variable, value |-> value, trace |-> trace,
     retry |-> FALSE, ignored |-> FALSE]

FirstTarget(node) ==
    IF Len(node.connections) > 0 THEN node.connections[1].targetNodeId ELSE ""

ResolveInput(currentNode, context, payload) ==
    CASE currentNode.type = "input" ->
           LET value == capturedValue(currentNode.properties, payload.text)
           IN  IF value # Null
               THEN Resolution(FirstTarget(currentNode),
                               currentNode.properties.variableName, value, "input_captured")
               ELSE [Resolution("", Undef, Undef, "") EXCEPT !.retry = TRUE]
      [] currentNode.type \in {"button", "message"} ->
           IF payload.type = "button_reply" /\ payload.payload # <<>>
           THEN LET buttonIndex == ParseIndex(payload.payload, "_btn_")
                    connection == IF buttonIndex >= 0
                                  THEN ButtonConnection(currentNode, buttonIndex) ELSE 0
                IN  IF connection # 0
                    THEN Resolution(currentNode.connections[connection].targetNodeId,
                                    Undef, Undef, "button_clicked")
                    ELSE Resolution(FirstTarget(currentNode), Undef, Undef, "")
           ELSE IF payload.type = "list_reply" /\ payload.payload # <<>>
           THEN LET listIndex == ParseIndex(payload.payload, "_list_")
                    connection == IF listIndex >= 0
                                  THEN ButtonConnection(currentNode, listIndex) ELSE 0
                IN  IF connection # 0
                    THEN Resolution(currentNode.connections[connection].targetNodeId,
                                    Undef, Undef, "list_selected")
                    ELSE Resolution("", Undef, Undef, "")
           ELSE [Resolution("", Undef, Undef, "") EXCEPT !.ignored = TRUE]
      [] currentNode.type = "condition" ->
           LET result == evaluateCondition(currentNode.properties, context)
               connection == HandleConnection(currentNode, IF result THEN "true" ELSE "false")
           IN  Resolution(IF connection # 0
                          THEN currentNode.connections[connection].targetNodeId ELSE "",
                          Undef, Undef, "condition_evaluated")
      [] OTHER -> Resolution("", Undef, Undef, "")

\* processCurrentNodeInput, "Update Context if needed": the session's context and
\* the contact's attributes take the captured variable
CapturedContext(session, r) ==
    IF Truthy(r.variable) THEN Put(session.context, r.variable.s, r.value)
    ELSE session.context

UpdateAttributes(db, c, r) ==
    IF c # 0 THEN [db EXCEPT !.contacts[c].attributes = Put(@, r.variable.s, r.value)]
    ELSE db

UpdateContext_sessionOnly(db, session, r) ==
    IF Truthy(r.variable)
    THEN [db EXCEPT !.sessions[session.id].context = CapturedContext(session, r)]
    ELSE db

UpdateContext(db, session, r) ==
    IF Truthy(r.variable)
    THEN UpdateAttributes(
             [db EXCEPT !.sessions[session.id].context = CapturedContext(session, r)],
             ContactIndex(db, session.phone_number), r)
    ELSE db

\* processCurrentNodeInput, the trace entry of the input
TraceInput(db, session, currentNode, r) ==
    IF r.trace # ""
    THEN addExecutionTrace(db, session.id, currentNode.id, currentNode.type, r.trace)
    ELSE db

ApplyInput_end(db, session, currentNode, r, nodes, t, fails) ==
    IF r.retry
    THEN sendMessage(db, session.phone_number,
                     [NoProperties EXCEPT !.label =
                         Or(currentNode.properties.invalidMessage, Str(InvalidInput))],
                     "", Obj(<<>>), fails)
    ELSE IF r.next # ""
    THEN advanceToNode(UpdateContext(TraceInput(db, session, currentNode, r), session, r),
                       [session EXCEPT !.context = CapturedContext(session, r)],
                       r.next, nodes, t, fails)
    ELSE endSession(UpdateContext(TraceInput(db, session, currentNode, r), session, r),
                    session.id, "completed", t)

\* processCurrentNodeInput once the input is resolved to r
ApplyInput(db, session, currentNode, r, nodes, t, fails) ==
    IF r.retry
    THEN sendMessage(db, session.phone_number,
                     [NoProperties EXCEPT !.label =
                         Or(currentNode.properties.invalidMessage, Str(InvalidInput))],
                     "", Obj(<<>>), fails)
    ELSE IF r.ignored THEN db
    ELSE IF r.next # ""
    THEN advanceToNode(UpdateContext(TraceInput(db, session, currentNode, r), session, r),
                       [session EXCEPT !.context = CapturedContext(session, r)],
                       r.next, nodes, t, fails)
    ELSE endSession(UpdateContext(TraceInput(db, session, currentNode, r), session, r),
                    session.id, "completed", t)

\* currentNode.properties.variableName and the destructuring of evaluateCondition
\* throw for a node whose properties are null
InputThrows(currentNode) ==
    currentNode.type \in {"input", "condition"} /\ currentNode.properties = Null

\* FlowEngine.processCurrentNodeInput
processCurrentNodeInput(db, session, payload, t, fails) ==
    IF NodesOf(session.flow_id) = {}
         \/ ~HasNode(NodesOf(session.flow_id), session.current_node_id)
    THEN endSession(db, session.id, "error", t)
    ELSE IF InputThrows(FindNode(NodesOf(session.flow_id), session.current_node_id))
    THEN logError(Throw(db, "processCurrentNodeInput"), session.phone_number,
                  "processCurrentNodeInput", TypeError)
    ELSE ApplyInput(db, session,
                    FindNode(NodesOf(session.flow_id), session.current_node_id),
                    ResolveInput(FindNode(NodesOf(session.flow_id), session.current_node_id),
                                 session.context, payload),
                    NodesOf(session.flow_id), t, fails)


(***************************************************************************)
(* FlowEngine.startFlow, checkStartTriggers and handleIncomingEvent        *)
(***************************************************************************)
\* startFlow, step 1: the contact is read, and inserted when there is none
GetOrCreateContact(db, phoneNumber) ==
    IF ContactIndex(db, phoneNumber) # 0 THEN db
    ELSE [db EXCEPT !.contacts = Append(@,
            [phone_number |-> phoneNumber, attributes |-> Obj(<<>>), tags |-> <<>>])]

\* startFlow, step 6: the row inserted into contact_sessions (created_at is the
\* row's place in the table)
NewSession(id, phoneNumber, flowId, firstNodeId, initialData, t) ==
    [id |-> id, phone_number |-> phoneNumber, flow_id |-> flowId,
     current_node_id |-> firstNodeId, status |-> "active", context |-> initialData,
     execution_trace |-> <<>>, last_interaction_at |-> t]

startFlow_unchecked(db, phoneNumber, flowId, initialData, t, fails) ==
    LET db1 == GetOrCreateContact(db, phoneNumber)
        session == NewSession(Len(db1.sessions) + 1, phoneNumber, flowId,
                              IF flowId \in FlowIds THEN Flows[flowId].first_node_id
                              ELSE "", initialData, t)
    IN  executeNode([db1 EXCEPT !.sessions = Append(@, session)], session,
                    session.current_node_id, NodesOf(flowId), t, fails)

\* FlowEngine.startFlow
startFlow(db, phoneNumber, flowId, initialData, t, fails) ==
    LET db1 == GetOrCreateContact(db, phoneNumber)
        flow == Flows[flowId]
        firstNodeId == flow.first_node_id
        nodes == NodesOf(flowId)
    IN  IF flowId \notin FlowIds
        THEN logError(Throw(db1, "startFlow"), phoneNumber, "startFlow",
                      "Flow not found")
        ELSE IF firstNodeId = "" THEN db1
        ELSE IF nodes = {} THEN db1
        ELSE IF ~HasNode(nodes, firstNodeId) THEN db1
        ELSE LET session == NewSession(Len(db1.sessions) + 1, phoneNumber, flowId,
                                       firstNodeId, initialData, t)
                 db2 == [db1 EXCEPT !.sessions = Append(@, session)]
             IN  executeNode(db2, session, firstNodeId, nodes, t, fails)

\* checkStartTriggers: the flows flows.find can return for the text; the query has
\* no ORDER BY, so any flow that matches may come first
MatchingFlows_anyType(text) ==
    {f \in FlowIds :
        /\ Flows[f].is_active
        /\ Truthy(Flows[f].trigger_value)
        /\ toLowerCase(Flows[f].trigger_value.s) = toLowerCase(trim(text))}

MatchingFlows(text) ==
    {f \in FlowIds :
        /\ Flows[f].is_active
        /\ Flows[f].trigger_type = "keyword"
        /\ Truthy(Flows[f].trigger_value)
        /\ toLowerCase(Flows[f].trigger_value.s) = toLowerCase(trim(text))}

\* FlowEngine.checkStartTriggers; matchedFlow is the flow find returns, "" for none
checkStartTriggers(db, phoneNumber, matchedFlow, t, fails) ==
    IF matchedFlow # "" THEN startFlow(db, phoneNumber, matchedFlow, Obj(<<>>), t, fails)
    ELSE db

handleStatusUpdate_all(db, payload) ==
    IF payload.messageId = 0 \/ payload.status = "" THEN db
    ELSE [db EXCEPT !.logs =
            [i \in 1..Len(db.logs) |-> [db.logs[i] EXCEPT !.status = payload.status]]]

\* FlowEngine.handleStatusUpdate
handleStatusUpdate(db, payload) ==
    IF payload.messageId = 0 \/ payload.status = "" THEN db
    ELSE [db EXCEPT !.logs =
            [i \in 1..Len(db.logs) |->
                IF db.logs[i].wati_message_id = payload.messageId
                THEN [db.logs[i] EXCEPT !.status = payload.status]
                ELSE db.logs[i]]]

\* FlowEngine.handleIncomingEvent
handleIncomingEvent(db, payload, matchedFlow, t, fails) ==
    IF payload.type = "status" THEN handleStatusUpdate(db, payload)
    ELSE LET got == getSession(db, payload.from, t)
         IN  IF got.session = NoSession
             THEN IF payload.type = "message" /\ Truthy(payload.text)
                  THEN IF payload.text.t # "str"
                       \* text.trim() of checkStartTriggers, outside its try
                       THEN logError(Throw(got.db, "checkStartTriggers"), payload.from,
                                     "handleIncomingEvent", TypeError)
                       ELSE checkStartTriggers(got.db, payload.from, matchedFlow, t, fails)
                  ELSE got.db
             ELSE processCurrentNodeInput(got.db, got.session, payload, t, fails)

(***************************************************************************)
(* The engine as a state machine: inbound events, direct triggers and the  *)
(* clock                                                                   *)
(***************************************************************************)
MaxSessions == 2

MaxLogs == 3

\* the readings of the clock: the start, the last hour a session of the start is
\* kept, and the first hour it is expired
ClockReadings == {0, SESSION_TIMEOUT_HOURS, SESSION_TIMEOUT_HOURS + 1}

\* the flows POST /trigger/:flowId is called for
TriggeredFlows == {"F1", "F3", "F7"}

Texts ==
    {<<" ", "H", "i", " ">>, <<"o", "k">>, <<"g", "o">>, <<" ">>, <<"5">>}

ButtonPayloads ==
    {<<"b1", "_btn_", "0">>, <<"q1", "_btn_", "1">>, <<"b1", "_btn_", "2">>, <<"b1">>}

ListPayloads == {<<"b1", "_list_", "1">>}

Event(type, from, text, payload, messageId, status) ==
    [type |-> type, from |-> from, text |-> text, payload |-> payload,
     messageId |-> messageId, status |-> status]

MessageEvents == {Event("message", p, Str(x), <<>>, 0, "") : p \in Phones, x \in Texts}

ButtonEvents ==
    {Event("button_reply", p, Str(<<"A">>), x, 0, "") : p \in Phones, x \in ButtonPayloads}

ListEvents ==
    {Event("list_reply", p, Str(<<"A">>), x, 0, "") : p \in Phones, x \in ListPayloads}

InitialData == {Obj(<<[k |-> name, v |-> Str(<<"Bo">>)]>>)}

\* the rows of message_logs the provider refuses: none
NoFailedSends == {{}}

MaxErrors == 2

WithinBounds(db) ==
    /\ Len(db.sessions) <= MaxSessions
    /\ Len(db.logs) <= MaxLogs
    /\ Len(db.errors) <= MaxErrors

Commit(db) ==
    /\ WithinBounds(db)
    /\ contact_sessions' = db.sessions
    /\ contacts' = db.contacts
    /\ message_logs' = db.logs
    /\ error_logs' = db.errors

Init ==
    /\ StoreInit
    /\ call = [fn |-> "none"]

\* what flows.find can return when checkStartTriggers runs for the event, "" for
\* no flow and when checkStartTriggers does not run
FlowsFound(payload) ==
    IF /\ payload.type = "message"
       /\ Truthy(payload.text)
       /\ payload.text.t = "str"
       /\ getSession(Db, payload.from, now).session = NoSession
       /\ MatchingFlows(payload.text.s) # {}
    THEN MatchingFlows(payload.text.s)
    ELSE {""}

\* one inbound message, button reply or list reply, handled by handleIncomingEvent
Inbound ==
    \E payload \in MessageEvents \cup ButtonEvents \cup ListEvents, fails \in NoFailedSends :
        \E matchedFlow \in FlowsFound(payload) :
            LET after == handleIncomingEvent(Db, payload, matchedFlow, now, fails)
            IN  /\ Commit(after)
                /\ call' = [fn |-> "handleIncomingEvent", payload |-> payload,
                            matchedFlow |-> matchedFlow]
                /\ UNCHANGED now

\* POST /trigger/:flowId: startFlow, then getSession for the response
Trigger ==
    \E p \in Phones, f \in TriggeredFlows, data \in InitialData, fails \in NoFailedSends :
        /\ Commit(getSession(startFlow(Db, p, f, data, now, fails), p, now).db)
        /\ call' = [fn |-> "startFlow", phoneNumber |-> p, flowId |-> f]
        /\ UNCHANGED now

\* the clock moves on to a later reading
Tick ==
    \E h \in ClockReadings :
        /\ h > now
        /\ now' = h
        /\ call' = [fn |-> "tick"]
        /\ UNCHANGED <<contact_sessions, contacts, message_logs, error_logs>>

Next == Inbound \/ Trigger \/ Tick

Spec == Init /\ [][Next]_vars


(***************************************************************************)
(* Properties of sessions                                                  *)
(***************************************************************************)
ActiveSessions(p) ==
    {i \in 1..Len(contact_sessions) :
        /\ contact_sessions[i].phone_number = p
        /\ contact_sessions[i].status = "active"}

Stale(i) == now - contact_sessions[i].last_interaction_at > SESSION_TIMEOUT_HOURS

\* the session a handler works on for a phone number: the newest active one, when
\* its last interaction is no older than the timeout; 0 without one
LiveSession(p) ==
    IF ActiveSessions(p) = {} THEN 0
    ELSE LET i == CHOOSE i \in ActiveSessions(p) : \A j \in ActiveSessions(p) : j <= i
         IN  IF Stale(i) THEN 0 ELSE i

\* the session a step adds, 0 when it adds none
Added == Len(contact_sessions') - Len(contact_sessions)

NodeOf(session) == FindNode(NodesOf(session.flow_id), session.current_node_id)

EnteredNodes(trace) == [k \in 1..Len(trace) |-> trace[k].nodeId]

\* C1: for every phone number, the store never holds two sessions of that phone
\* number with status active.
C1_AtMostOneActiveSession == \A p \in Phones : Cardinality(ActiveSessions(p)) <= 1

\* C2: for an active session whose last interaction is more than 24 hours old,
\* getSession of its phone number returns no session, on the first call and on a
\* repeated one, and the session is set to expired by the first call alone.
C2_StaleSessionExpiredOnce ==
    \A i \in 1..Len(contact_sessions) :
        (contact_sessions[i].status = "active" /\ Stale(i)) =>
            LET p == contact_sessions[i].phone_number
                first == getSession(Db, p, now)
                second == getSession(first.db, p, now)
            IN  /\ first.session = NoSession
                /\ second.session = NoSession
                /\ first.db.sessions[i].status = "expired"
                /\ second.db = first.db

(***************************************************************************)
(* Properties of one handled event                                         *)
(***************************************************************************)
\* the step handles an inbound event of that type from p
Handles(p, type) ==
    /\ call'.fn = "handleIncomingEvent"
    /\ call'.payload.from = p
    /\ call'.payload.type = type

\* the index a reply payload <node>_btn_<i> ends in, -1 for any other payload
ReplyIndex(payload) ==
    IF Len(payload) = 3 /\ payload[2] = "_btn_" /\ payload[3] \in DigitChars
    THEN DigitValue(payload[3])
    ELSE -1

ButtonTargets(node, i) ==
    {node.connections[k].targetNodeId :
        k \in {k \in 1..Len(node.connections) : node.connections[k].buttonIndex = i}}

\* a node at which the walk rests: it waits for a reply, or nothing follows it
Rests(node) ==
    \/ node.type = "input"
    \/ node.type \in {"message", "button", "list"} /\
         (Len(node.properties.buttons) > 0 \/ Len(node.connections) = 0)

\* C3: when the session rests at a button node, or at a message node with buttons,
\* and a button reply arrives whose payload ends in _btn_<i>, with a connection of
\* buttonIndex i, the node the session enters next is the target of that
\* connection and of no other, and the session rests there when the target waits
\* or closes the flow.
C3_ButtonRouting ==
    [][\A p \in Phones :
        (/\ Handles(p, "button_reply")
         /\ LiveSession(p) # 0
         /\ NodeOf(contact_sessions[LiveSession(p)]).type \in {"button", "message"}
         /\ Len(NodeOf(contact_sessions[LiveSession(p)]).properties.buttons) > 0
         /\ ButtonTargets(NodeOf(contact_sessions[LiveSession(p)]),
                          ReplyIndex(call'.payload.payload)) # {})
        => LET s == LiveSession(p)
               node == NodeOf(contact_sessions[s])
               targets == ButtonTargets(node, ReplyIndex(call'.payload.payload))
               before == contact_sessions[s].execution_trace
               after == contact_sessions'[s].execution_trace
           IN  /\ Len(after) >= Len(before) + 2
               /\ SubSeq(after, 1, Len(before)) = before
               /\ after[Len(before) + 1].nodeId = node.id
               /\ after[Len(before) + 1].action = "button_clicked"
               /\ after[Len(before) + 2].action = "node_entered"
               /\ after[Len(before) + 2].nodeId \in targets
               /\ \A n \in NodesOf(contact_sessions[s].flow_id) :
                     (n.id \in targets /\ Rests(n)) =>
                        contact_sessions'[s].current_node_id = n.id
      ]_vars

\* the reply of button 0 at q1, whose connection is listed second, has led to c3
C3_Witness ==
    /\ call.fn = "handleIncomingEvent"
    /\ call.payload.type = "button_reply"
    /\ ReplyIndex(call.payload.payload) = 0
    /\ \E s \in 1..Len(contact_sessions) :
          /\ Len(contact_sessions[s].execution_trace) >= 3
          /\ SubSeq(EnteredNodes(contact_sessions[s].execution_trace), 1, 3)
                = <<"q1", "q1", "c3">>
          /\ contact_sessions[s].execution_trace[2].action = "button_clicked"

\* the nodes from node id on, along the first connection of each, n at most
RECURSIVE DefaultPath(_, _, _)
DefaultPath(nodes, id, n) ==
    IF n = 0 \/ ~HasNode(nodes, id) THEN <<>>
    ELSE LET node == FindNode(nodes, id)
         IN  <<node>> \o (IF Len(node.connections) = 0 THEN <<>>
                          ELSE DefaultPath(nodes, node.connections[1].targetNodeId, n - 1))

\* the flows Start -> HTTP (no responseVariable) -> Message (no buttons) -> Input
HttpMessageInput(f) ==
    LET path == DefaultPath(NodesOf(f), Flows[f].first_node_id, 4)
    IN  /\ Len(path) = 4
        /\ path[1].type = "start"
        /\ path[2].type = "http" /\ ~Truthy(path[2].properties.responseVariable)
        /\ path[3].type = "message" /\ Len(path[3].properties.buttons) = 0
             /\ Len(path[3].properties.listItems) = 0
        /\ path[4].type = "input"

\* the step is one startFlow call for flow f
Starts(f) ==
    \/ call'.fn = "startFlow" /\ call'.flowId = f
    \/ call'.fn = "handleIncomingEvent" /\ call'.matchedFlow = f

\* what C4 says of the chain but for the number of messages: the new session has
\* entered the nodes of the chain in their order, is active and rests at the Input
ChainWalked(f) ==
    LET path == DefaultPath(NodesOf(f), Flows[f].first_node_id, 4)
        new == contact_sessions'[Len(contact_sessions')]
    IN  /\ Added = 1
        /\ new.flow_id = f
        /\ EnteredNodes(new.execution_trace) = [k \in 1..4 |-> path[k].id]
        /\ \A k \in 1..4 : new.execution_trace[k].action = "node_entered"
        /\ new.status = "active"
        /\ new.current_node_id = path[4].id
        /\ Len(message_logs') >= Len(message_logs)
        /\ SubSeq(message_logs', 1, Len(message_logs)) = message_logs

\* C4 as stated: one startFlow call on such a flow walks the chain, leaves the
\* session active at the Input node and sends exactly one outbound message.
C4_ChainSendsOneMessage ==
    [][\A f \in FlowIds :
        (Starts(f) /\ HttpMessageInput(f)) =>
            /\ ChainWalked(f)
            /\ Len(message_logs') = Len(message_logs) + 1
      ]_vars

\* C4, amended: one startFlow call on such a flow walks the chain, leaves the
\* session active at the Input node and sends exactly two outbound messages: the
\* text of the Message node, then the prompt of the Input node.
C4_ChainSendsMessageAndPrompt ==
    [][\A f \in FlowIds :
        (Starts(f) /\ HttpMessageInput(f)) =>
            LET path == DefaultPath(NodesOf(f), Flows[f].first_node_id, 4)
                sent == Len(message_logs)
            IN  /\ ChainWalked(f)
                /\ Len(message_logs') = sent + 2
                /\ message_logs'[sent + 1].node = path[3].id
                /\ message_logs'[sent + 1].message_type = "text"
                /\ message_logs'[sent + 2].node = path[4].id
                /\ message_logs'[sent + 2].body = path[4].properties.label.s
      ]_vars

\* a trigger of F1 has left a session at i1 behind the message of m1 and the prompt
C4_Witness ==
    /\ call.fn = "startFlow"
    /\ call.flowId = "F1"
    /\ HttpMessageInput("F1")
    /\ Len(message_logs) = 2
    /\ message_logs[1].node = "m1"
    /\ message_logs[2].node = "i1"
    /\ contact_sessions[Len(contact_sessions)].current_node_id = "i1"
    /\ contact_sessions[Len(contact_sessions)].status = "active"

\* the flows a text names: active, triggered by keyword, and with a non-empty
\* trigger value that, case-folded, is the text trimmed and case-folded
KeywordMatches(text) ==
    {f \in FlowIds :
        /\ Flows[f].is_active
        /\ Flows[f].trigger_type = "keyword"
        /\ Flows[f].trigger_value.s # <<>>
        /\ toLowerCase(Flows[f].trigger_value.s) = toLowerCase(trim(text))}

\* the first node of the flow is set and is one of its nodes
Startable(f) ==
    /\ Flows[f].first_node_id # ""
    /\ \E n \in NodesOf(f) : n.id = Flows[f].first_node_id

Entries(trace, nodeId) ==
    Cardinality({k \in 1..Len(trace) :
                    trace[k].nodeId = nodeId /\ trace[k].action = "node_entered"})

\* the step is the handling of a text message of a sender without a session
TextWithoutSession(p) ==
    /\ Handles(p, "message")
    /\ call'.payload.text.s # <<>>
    /\ LiveSession(p) = 0

\* the session the step adds is one of flow f, whose first node it has entered once
StartedOnce(p, f) ==
    LET new == contact_sessions'[Len(contact_sessions')]
    IN  /\ Added = 1
        /\ new.phone_number = p
        /\ new.flow_id = f
        /\ new.execution_trace[1].nodeId = Flows[f].first_node_id
        /\ Entries(new.execution_trace, Flows[f].first_node_id) = 1

\* C5 as stated: with no active session for the sender, a text starts a flow if
\* and only if the flow is active, triggered by keyword, and its non-empty trigger
\* value is the text after trimming and case folding; on a match exactly one
\* session is created, with status active, and the first node is executed once.
C5_KeywordStartsActiveSession ==
    [][\A p \in Phones :
        TextWithoutSession(p) =>
            IF KeywordMatches(call'.payload.text.s) = {}
            THEN Added = 0
            ELSE \E f \in KeywordMatches(call'.payload.text.s) :
                    /\ StartedOnce(p, f)
                    /\ contact_sessions'[Len(contact_sessions')].status = "active"
      ]_vars

\* C5, amended: with no active session for the sender, a text starts no flow when
\* no flow matches it; when flows match, the one the query returns first is among
\* them, and it is started if and only if its first node is set and is one of its
\* nodes: then exactly one session is created and the first node is entered once,
\* the session being active, or completed when the flow has run to its end.
C5_KeywordStartsFlow ==
    [][\A p \in Phones :
        TextWithoutSession(p) =>
            IF KeywordMatches(call'.payload.text.s) = {}
            THEN Added = 0 /\ call'.matchedFlow = ""
            ELSE /\ call'.matchedFlow \in KeywordMatches(call'.payload.text.s)
                 /\ IF Startable(call'.matchedFlow)
                    THEN /\ StartedOnce(p, call'.matchedFlow)
                         /\ contact_sessions'[Len(contact_sessions')].status
                               \in {"active", "completed"}
                    ELSE Added = 0
      ]_vars

\* the text " Hi " has started F2, whose trigger value is "Hi", while F1 matched too
C5_Witness ==
    /\ call.fn = "handleIncomingEvent"
    /\ call.payload.type = "message"
    /\ call.payload.text.s = <<" ", "H", "i", " ">>
    /\ KeywordMatches(call.payload.text.s) = {"F1", "F2"}
    /\ call.matchedFlow = "F2"
    /\ contact_sessions # <<>>
    /\ contact_sessions[Len(contact_sessions)].flow_id = "F2"
    /\ contact_sessions[Len(contact_sessions)].status = "active"
    /\ contact_sessions[Len(contact_sessions)].execution_trace
          = <<[nodeId |-> "q1", nodeType |-> "message", action |-> "node_entered"]>>

\* a text that is not a number: some character of it is neither a digit nor blank
NotNumeric(text) == \E k \in 1..Len(text) : text[k] \notin DigitChars \cup Whitespace

\* C6: when the session rests at an input node with inputType number and a text
\* arrives that is not a number, the session's current node, status and context
\* stay as they are and exactly one message is sent, the node's invalidMessage.
C6_InvalidNumberReprompts ==
    [][\A p \in Phones :
        (/\ Handles(p, "message")
         /\ LiveSession(p) # 0
         /\ NodeOf(contact_sessions[LiveSession(p)]).type = "input"
         /\ NodeOf(contact_sessions[LiveSession(p)]).properties.inputType
               = Str(<<"number">>)
         /\ Truthy(NodeOf(contact_sessions[LiveSession(p)]).properties.invalidMessage)
         /\ NotNumeric(call'.payload.text.s))
        => LET s == LiveSession(p)
               node == NodeOf(contact_sessions[s])
               sent == Len(message_logs)
           IN  /\ contact_sessions'[s].current_node_id = contact_sessions[s].current_node_id
               /\ contact_sessions'[s].status = contact_sessions[s].status
               /\ contact_sessions'[s].context = contact_sessions[s].context
               /\ Len(contact_sessions') = Len(contact_sessions)
               /\ Len(message_logs') = sent + 1
               /\ SubSeq(message_logs', 1, sent) = message_logs
               /\ message_logs'[sent + 1].phone_number = p
               /\ message_logs'[sent + 1].message_type = "text"
               /\ message_logs'[sent + 1].body = node.properties.invalidMessage.s
      ]_vars

\* the text "ok" has met the number input i1 and was answered "Enter a number"
C6_Witness ==
    /\ call.fn = "handleIncomingEvent"
    /\ call.payload.type = "message"
    /\ call.payload.text.s = <<"o", "k">>
    /\ message_logs # <<>>
    /\ message_logs[Len(message_logs)].body = EnterANumber
    /\ \E s \in 1..Len(contact_sessions) :
          /\ contact_sessions[s].status = "active"
          /\ contact_sessions[s].current_node_id = "i1"
          /\ contact_sessions[s].context = Obj(<<>>)

\* the operators evaluateCondition knows
KnownOperators ==
    {<<"equals">>, <<"not_equals">>, <<"contains">>, <<"greater_than">>,
     <<"less_than">>, <<"exists">>, <<"not_exists">>}

\* a condition node without a variable, without an operator, or with an operator
\* evaluateCondition does not know
Unconfigured(node) ==
    /\ node.type = "condition"
    /\ \/ ~Truthy(node.properties.variable)
       \/ ~Truthy(node.properties.operator)
       \/ node.properties.operator.s \notin KnownOperators

TrueTargets(node) ==
    {node.connections[k].targetNodeId :
        k \in {k \in 1..Len(node.connections) : node.connections[k].sourceHandle = "true"}}

\* C7: a condition node whose variable or operator is not configured, or whose
\* operator is not known, evaluates to true in the context of every session, and a
\* session that enters it enters next the target of its connection of handle true.
C7_UnconfiguredConditionIsTrue ==
    \A s \in 1..Len(contact_sessions) :
        LET session == contact_sessions[s]
            trace == session.execution_trace
        IN  \A node \in NodesOf(session.flow_id) :
                (Unconfigured(node) /\ TrueTargets(node) # {}) =>
                    /\ evaluateCondition(node.properties, session.context)
                    /\ \A k \in 1..Len(trace) :
                          (trace[k].nodeId = node.id /\ trace[k].action = "node_entered")
                          => /\ k < Len(trace)
                             /\ trace[k + 1].action = "node_entered"
                             /\ trace[k + 1].nodeId \in TrueTargets(node)

\* a session has passed c2, which has no variable and lists its false connection
\* first, and has gone on to mB
C7_Witness ==
    \E s \in 1..Len(contact_sessions) :
        \E k \in 1..(Len(contact_sessions[s].execution_trace) - 1) :
            /\ contact_sessions[s].execution_trace[k].nodeId = "c2"
            /\ contact_sessions[s].execution_trace[k + 1].nodeId = "mB"
            /\ Unconfigured(FindNode(NodesOf("F1"), "c2"))


\* the session getSession reads for a phone number: the newest active one, 0
\* without one
NewestActive(p) ==
    IF ActiveSessions(p) = {} THEN 0
    ELSE CHOOSE i \in ActiveSessions(p) : \A j \in ActiveSessions(p) : j <= i

ExpiredOnly(i) ==
    contact_sessions' = [contact_sessions EXCEPT ![i].status = "expired"]

\* C16: an inbound event that arrives more than 24 hours after the last interaction
\* of the sender's session is not processed against the session: the session is
\* marked expired, its node, context and trace stay as they were, and the event is
\* handled as that of a contact without a session (nothing else happens unless it is
\* a text, which may start a flow whose keyword it matches).  A session whose gap is
\* 24 hours or less is not expired, and the event starts no new session.
C16_StaleSessionNotProcessed ==
    [][\A p \in Phones :
          (\E type \in {"message", "button_reply", "list_reply"} : Handles(p, type))
              /\ NewestActive(p) # 0
          => IF Stale(NewestActive(p))
             THEN /\ contact_sessions'[NewestActive(p)] =
                        [contact_sessions[NewestActive(p)] EXCEPT !.status = "expired"]
                  /\ ~Handles(p, "message") =>
                        ExpiredOnly(NewestActive(p)) /\ message_logs' = message_logs
                  /\ Handles(p, "message") =>
                        \/ ExpiredOnly(NewestActive(p)) /\ message_logs' = message_logs
                        \/ /\ Added = 1
                           /\ contact_sessions'[Len(contact_sessions')].flow_id
                                  \in KeywordMatches(call'.payload.text.s)
             ELSE /\ contact_sessions'[NewestActive(p)].status # "expired"
                  /\ Added = 0]_vars

\* a reply arrived 25 hours after the only session of p1 was started and last
\* touched: the session is expired, on the node it was on
C16_Witness ==
    /\ call.fn = "handleIncomingEvent"
    /\ call.payload.type = "button_reply"
    /\ now = SESSION_TIMEOUT_HOURS + 1
    /\ Len(contact_sessions) = 1
    /\ contact_sessions[1].status = "expired"
    /\ contact_sessions[1].last_interaction_at = 0
    /\ contact_sessions[1].current_node_id = "i1"


(***************************************************************************)
(* The engine on flows that are misconfigured: null properties, a          *)
(* connection to a missing node, a list node, a webhook whose endpoint is  *)
(* down, an unknown flow id, and replies that name no connection           *)
(***************************************************************************)
\* the flows POST /trigger/:flowId is called for; no flow has the id F0
EdgeFlows == {"F0", "F2", "F5", "F7", "F8", "F9", "F10", "F11", "F13"}

\* message.text.body as the provider's JSON holds it: a string or a number
EdgeTexts == {Str(<<"5">>), Str(<<"w">>), Num(5)}

EdgeButtonPayloads == {<<"e1", "_btn_", "0">>, <<"q1", "_btn_", "7">>}

EdgeListPayloads == {<<"l1", "_list_", "1">>, <<"q1">>, <<"q1", "_list_", "7">>}

EdgeEvents ==
    {Event("message", p, x, <<>>, 0, "") : p \in Phones, x \in EdgeTexts}
    \cup {Event("button_reply", p, Str(<<"A">>), x, 0, "") :
             p \in Phones, x \in EdgeButtonPayloads}
    \cup {Event("list_reply", p, Str(<<"A">>), x, 0, "") :
             p \in Phones, x \in EdgeListPayloads}

\* the rows of message_logs whose request the provider refuses: none, or the second
FailedSends == {{}, {2}}

EdgeInbound ==
    \E payload \in EdgeEvents, fails \in FailedSends :
        \E matchedFlow \in FlowsFound(payload) :
            LET after == handleIncomingEvent(Db, payload, matchedFlow, now, fails)
            IN  /\ Commit(after)
                /\ call' = [fn |-> "handleIncomingEvent", payload |-> payload,
                            matchedFlow |-> matchedFlow, thrown |-> after.thrown]
                /\ UNCHANGED now

EdgeTrigger ==
    \E p \in Phones, f \in EdgeFlows, data \in InitialData, fails \in FailedSends :
        LET after == getSession(startFlow(Db, p, f, data, now, fails), p, now).db
        IN  /\ Commit(after)
            /\ call' = [fn |-> "startFlow", phoneNumber |-> p, flowId |-> f,
                        thrown |-> after.thrown]
            /\ UNCHANGED now

EdgeNext == EdgeInbound \/ EdgeTrigger

SpecEdge == Init /\ [][EdgeNext]_vars

\* the rows logError added to error_logs in the step
LoggedErrors == {i \in 1..Len(error_logs') : i > Len(error_logs)}

\* C12: handleIncomingEvent returns to its caller whatever happens, and every
\* failure raised while it loads the session, checks the triggers, starts a flow,
\* processes the input or executes a node is recorded through logError, in a row of
\* error_logs with the sender's phone number and a context label
C12_EveryFailureLogged ==
    [][call'.fn = "handleIncomingEvent" =>
          \A k \in 1..Len(call'.thrown) :
              \E i \in LoggedErrors :
                  /\ error_logs'[i].phone_number = call'.payload.from
                  /\ error_logs'[i].context # ""]_vars

\* the flow has no first node, no nodes, or a first node that is not among its nodes
NoFirstNode(f) ==
    \/ Flows[f].first_node_id = ""
    \/ NodesOf(f) = {}
    \/ ~HasNode(NodesOf(f), Flows[f].first_node_id)

\* a connection of a node of the flow names a node that is not among its nodes
DanglingConnection(f) ==
    \E n \in NodesOf(f) : \E k \in 1..Len(n.connections) :
        ~HasNode(NodesOf(f), n.connections[k].targetNodeId)

NothingStarted ==
    /\ Len(contact_sessions') = Len(contact_sessions)
    /\ Len(message_logs') = Len(message_logs)

\* C14 as stated: startFlow on a flow with no first node, no nodes, a first node
\* that is not among its nodes, or a connection to a node that does not exist,
\* creates no session and sends no message
C14_ConfigErrorAbortsStartAsStated ==
    [][(/\ call'.fn = "startFlow"
        /\ call'.flowId \in FlowIds
        /\ NoFirstNode(call'.flowId) \/ DanglingConnection(call'.flowId))
       => NothingStarted]_vars

\* C14, amended: startFlow on a flow with no first node, no nodes or a first node
\* that is not among its nodes creates no session and sends no message
C14_ConfigErrorAbortsStart ==
    [][(/\ call'.fn = "startFlow"
        /\ call'.flowId \in FlowIds
        /\ NoFirstNode(call'.flowId))
       => NothingStarted]_vars

\* startFlow was called for F13, which has no nodes, and left a contact but no
\* session and no message
C14_Witness ==
    /\ call.fn = "startFlow"
    /\ call.flowId = "F13"
    /\ NodesOf("F13") = {}
    /\ Len(contacts) = 1
    /\ contact_sessions = <<>>
    /\ message_logs = <<>>

\* the nodes executeNode throws at: it reads a key of properties, which is null
ThrowsAt(node) ==
    /\ node.properties = Null
    /\ node.type \in {"message", "button", "list", "input", "condition", "tag", "handoff"}

\* executeNode has thrown in the session: its trace holds the entry of such a node
Threw(session) ==
    \E k \in 1..Len(session.execution_trace) :
        /\ session.execution_trace[k].action = "node_entered"
        /\ ThrowsAt(FindNode(NodesOf(session.flow_id),
                             session.execution_trace[k].nodeId))

\* C13: when executeNode throws while it executes a node, the session's status
\* becomes error, the error is logged with the context label executeNode, and from
\* then on no further node of the session is executed
C13_ExecuteNodeErrorEndsSession ==
    [][/\ \A k \in 1..Len(call'.thrown) :
              call'.thrown[k].place = "executeNode" =>
                  /\ contact_sessions'[call'.thrown[k].session].status = "error"
                  /\ \E i \in LoggedErrors : error_logs'[i].context = "executeNode"
       /\ \A i \in 1..Len(contact_sessions) :
              Threw(contact_sessions[i]) =>
                  contact_sessions'[i].execution_trace =
                      contact_sessions[i].execution_trace]_vars


(***************************************************************************)
(* POST /api/webhooks/whatsapp.  call holds the handler's position: the    *)
(* body of the request, the change the loop is at, the statuses already    *)
(* sent with res.sendStatus, the messages the route itself sent, and the   *)
(* events handed to FlowEngine.handleIncomingEvent whose promise is still  *)
(* running (the route does not await it).  storeWebhookData writes db.json *)
(* inside its own try and catch, and is left out.                          *)
(***************************************************************************)
MaxPending == 2

Go == <<"g", "o">>

\* value.messages[0]: text is undefined for a message without the key text,
\* interactive.button_reply is undefined for the reply to a list
TextMessage(text) ==
    [from |-> "p1", type |-> "text", text |-> text,
     interactive |-> [button_reply |-> Undef]]

InteractiveMessage(button_reply) ==
    [from |-> "p1", type |-> "interactive", text |-> Undef,
     interactive |-> [button_reply |-> button_reply]]

ImageMessage ==
    [from |-> "p1", type |-> "image", text |-> Undef,
     interactive |-> [button_reply |-> Undef]]

Messages ==
    { TextMessage([body |-> Str(Go)]), TextMessage([body |-> Num(5)]),
      TextMessage(Undef),
      InteractiveMessage([id |-> <<"products">>, title |-> Str(<<"Products">>)]),
      InteractiveMessage(Undef),
      ImageMessage }

\* a JSON array
Arr(a) == [t |-> "arr", a |-> a]

\* value.statuses[0]
Statuses == {[recipient_id |-> "p1", id |-> 1, status |-> "read"]}

\* change.value: messages and statuses are empty or hold one element
Values ==
    [messages : {<<>>} \cup {<<m>> : m \in Messages},
     statuses : {<<>>} \cup {<<x>> : x \in Statuses}]

\* req.body; entry is undefined or the changes of its entries, in order
Bodies ==
    [object : {"whatsapp_business_account", "page"},
     entry : {Undef} \cup {Arr(<<v>>) : v \in Values}
                     \cup {Arr(<<v, w>>) : v \in Values,
                                           w \in {[messages |-> <<>>,
                                                   statuses |-> <<x>>] :
                                                  x \in Statuses}}]

Idle ==
    [fn |-> "whatsapp", pc |-> "idle", body |-> [object |-> "", entry |-> Undef],
     change |-> 0, sent |-> <<>>, replies |-> <<>>, pending |-> <<>>,
     threw |-> FALSE]

\* the id a sendXxx of the route is named by in replies
ButtonReplies == {<<"products">>, <<"services">>}

\* one change of the loop, up to markMessageAsRead and the status update: the
\* handler's position after it.  A TypeError leaves the loop for the catch.
handleMessage(c, message) ==
    CASE message.type = "text" /\ message.text = Undef ->
           [c EXCEPT !.pc = "catch", !.threw = TRUE]
      [] message.type = "text" ->
           [c EXCEPT !.replies = Append(@, <<"welcome">>),
                     !.pending = Append(@, Event("message", message.from,
                                                 message.text.body, <<>>, 0, ""))]
      [] message.type = "interactive" /\ message.interactive.button_reply = Undef ->
           [c EXCEPT !.pc = "catch", !.threw = TRUE]
      [] message.type = "interactive" ->
           [c EXCEPT !.replies =
                        IF message.interactive.button_reply.id \in ButtonReplies
                        THEN Append(@, message.interactive.button_reply.id) ELSE @,
                     !.pending = Append(@, Event("button_reply", message.from,
                                                 message.interactive.button_reply.title,
                                                 message.interactive.button_reply.id,
                                                 0, ""))]
      [] OTHER -> c

handleStatuses(c, value) ==
    IF c.pc = "catch" \/ Len(value.statuses) = 0 THEN c
    ELSE [c EXCEPT !.pending =
             Append(@, Event("status", value.statuses[1].recipient_id, Undef, <<>>,
                             value.statuses[1].id, value.statuses[1].status))]

handleChange(c, value) ==
    handleStatuses(IF Len(value.messages) > 0 THEN handleMessage(c, value.messages[1])
                   ELSE c,
                   value)

\* the catch of the handler: res.sendStatus(200)
catchHandler_log(c) == [c EXCEPT !.pc = "done"]

catchHandler(c) == [c EXCEPT !.pc = "done", !.sent = Append(@, 200)]

\* the request arrives: body.object is tested and the loop over body.entry is entered
WebhookReceive ==
    /\ call.pc \in {"idle", "done"}
    /\ \E body \in Bodies :
          call' = [Idle EXCEPT !.body = body, !.pending = call.pending,
                     !.pc = IF body.object # "whatsapp_business_account" THEN "respond"
                            ELSE IF body.entry = Undef THEN "catch"
                            ELSE "loop",
                     !.threw = body.object = "whatsapp_business_account"
                                  /\ body.entry = Undef,
                     !.change = 1]
    /\ UNCHANGED store

\* one iteration of the loop over the changes
WebhookChange ==
    /\ call.pc = "loop"
    /\ call.change <= Len(call.body.entry.a)
    /\ Len(call.pending) < MaxPending
    /\ call' = [handleChange(call, call.body.entry.a[call.change])
                   EXCEPT !.change = @ + 1]
    /\ UNCHANGED store

\* after the loop: res.sendStatus(200)
WebhookRespond ==
    /\ \/ call.pc = "respond"
       \/ call.pc = "loop" /\ call.change > Len(call.body.entry.a)
    /\ call' = [call EXCEPT !.pc = "done", !.sent = Append(@, 200)]
    /\ UNCHANGED store

WebhookCatch ==
    /\ call.pc = "catch"
    /\ call' = catchHandler(call)
    /\ UNCHANGED store

\* the promise of one FlowEngine.handleIncomingEvent runs to its end; it never
\* rejects, so the .catch of the route has nothing to handle
EngineRuns ==
    /\ call.fn = "whatsapp"
    /\ Len(call.pending) > 0
    /\ \E matchedFlow \in FlowsFound(Head(call.pending)) :
          Commit(handleIncomingEvent(Db, Head(call.pending), matchedFlow, now, {}))
    /\ call' = [call EXCEPT !.pending = Tail(@)]
    /\ UNCHANGED now

WebhookInit ==
    /\ StoreInit
    /\ call = Idle

WebhookNext ==
    WebhookReceive \/ WebhookChange \/ WebhookRespond \/ WebhookCatch \/ EngineRuns

SpecWebhook == WebhookInit /\ [][WebhookNext]_vars

\* C11: the handler of POST /whatsapp answers every request with HTTP 200 exactly
\* once: nothing is sent before the handler ends, and at its end one status, 200,
\* has been sent, whether the loop ended, the engine failed or the handler threw
C11_AnswersOnceWith200 ==
    /\ call.pc = "done" => call.sent = <<200>>
    /\ call.pc # "done" => call.sent = <<>>

\* the handler threw after it had handed an event to the engine, the engine failed
\* on that event, and the request is answered
C11_Witness ==
    /\ call.pc = "done"
    /\ call.threw
    /\ \E i \in 1..Len(error_logs) : error_logs[i].context = "handleIncomingEvent"
    /\ call.sent = <<200>>


\* a node executeNode stops at to wait for the contact: an input node, or a message,
\* button or list node with a button or a list item
Suspends(node) ==
    /\ node.properties # Null
    /\ \/ node.type = "input"
       \/ node.type \in {"message", "button", "list"} /\ hasInteractive(node)

\* the node the session's traversal has reached: the one it entered last
LastEntered(session) ==
    FindNode(NodesOf(session.flow_id),
             session.execution_trace[Len(session.execution_trace)].nodeId)

\* C17: once a handler has finished, every session with status active is on a
\* node that suspends, and every session whose traversal has reached a node that
\* does not suspend and has no connection is completed
C17_ActiveSessionsAreSuspended ==
    \A i \in 1..Len(contact_sessions) :
        /\ contact_sessions[i].status = "active" => Suspends(NodeOf(contact_sessions[i]))
        /\ (/\ Len(contact_sessions[i].execution_trace) > 0
            /\ ~Suspends(LastEntered(contact_sessions[i]))
            /\ LastEntered(contact_sessions[i]).properties # Null
            /\ LastEntered(contact_sessions[i]).type # "handoff"
            /\ Len(LastEntered(contact_sessions[i]).connections) = 0)
           => contact_sessions[i].status = "completed"


(***************************************************************************)
(* Two invocations of handleIncomingEvent for the same contact.  The route *)
(* starts each without awaiting it, and an invocation gives way at every   *)
(* await: between getSession, which reads the session row, and             *)
(* processCurrentNodeInput, which works on the row that was read, the      *)
(* other invocation may run.  call holds, for each invocation, its         *)
(* position, its event and the session row it has read.                    *)
(***************************************************************************)
Invocations == {1, 2}

RaceTexts == {<<"a">>, <<"b">>}

RaceButtonPayloads == {<<"q1", "_btn_", "0">>, <<"q1", "_btn_", "1">>}

RaceEvents ==
    {Event("message", p, Str(x), <<>>, 0, "") : p \in Phones, x \in RaceTexts}
    \cup {Event("button_reply", p, Str(<<"A">>), x, 0, "") :
             p \in Phones, x \in RaceButtonPayloads}

\* the flows whose session the invocations race for: F3 asks for a name at k1 and
\* closes with the message k2; F2 offers two buttons at q1, which lead to different
\* nodes
RaceFlows == {"F3", "F2"}

Waiting ==
    [pc |-> "idle", payload |-> Event("message", "p1", Str(<<"a">>), <<>>, 0, ""),
     session |-> NoSession]

RaceInit ==
    /\ StoreInit
    /\ call = [fn |-> "race", invocation |-> [w \in Invocations |-> Waiting]]

\* POST /trigger/:flowId
RaceTrigger ==
    /\ \E p \in Phones, f \in RaceFlows, data \in InitialData :
          Commit(getSession(startFlow(Db, p, f, data, now, {}), p, now).db)
    /\ UNCHANGED <<now, call>>

\* the route hands an event to handleIncomingEvent
RaceReceive(w) ==
    /\ call.invocation[w].pc = "idle"
    /\ \E payload \in RaceEvents :
          call' = [call EXCEPT !.invocation[w] = [Waiting EXCEPT !.pc = "received",
                                                                 !.payload = payload]]
    /\ UNCHANGED store

\* handleIncomingEvent, step 2: await this.getSession(phoneNumber)
RaceGetSession(w) ==
    /\ call.invocation[w].pc = "received"
    /\ Commit(getSession(Db, call.invocation[w].payload.from, now).db)
    /\ call' = [call EXCEPT !.invocation[w].pc = "loaded",
                            !.invocation[w].session =
                                getSession(Db, call.invocation[w].payload.from,
                                           now).session]
    /\ UNCHANGED now

\* handleIncomingEvent, step 3, on the session that was read
RaceProcess(w) ==
    /\ call.invocation[w].pc = "loaded"
    /\ IF call.invocation[w].session = NoSession
       THEN \E matchedFlow \in (IF MatchingFlows(call.invocation[w].payload.text.s) = {}
                                THEN {""}
                                ELSE MatchingFlows(call.invocation[w].payload.text.s)) :
               Commit(checkStartTriggers(Db, call.invocation[w].payload.from,
                                         matchedFlow, now, {}))
       ELSE Commit(processCurrentNodeInput(Db, call.invocation[w].session,
                                           call.invocation[w].payload, now, {}))
    /\ call' = [call EXCEPT !.invocation[w].pc = "idle"]
    /\ UNCHANGED now

RaceNext ==
    \/ RaceTrigger
    \/ \E w \in Invocations : RaceReceive(w) \/ RaceGetSession(w) \/ RaceProcess(w)

SpecRace == RaceInit /\ [][RaceNext]_vars

\* invocation w is about to process a valid input on a session row that the store
\* no longer holds as it was read: another invocation has advanced the session
Overtaken(w) ==
    LET mine == call.invocation[w].session
    IN  /\ call.invocation[w].pc = "loaded"
        /\ call'.invocation[w].pc = "idle"
        /\ mine # NoSession
        /\ NodeOf(mine).type = "input"
        /\ contact_sessions[mine.id] # mine

\* C15: the handling of two events of one contact is not mutually exclusive.  An
\* invocation that has read the session at an input node still advances it after
\* another invocation has advanced the same session from the same node: the message
\* of the successor node is sent a second time, and the context the other invocation
\* wrote is replaced by the context this one has read plus its own input
C15_BothInvocationsAdvance ==
    [][\A w \in Invocations :
          Overtaken(w) =>
              LET mine == call.invocation[w].session
                  successor == FirstTarget(NodeOf(mine))
              IN  /\ \E i \in 1..Len(message_logs) : message_logs[i].node = successor
                  /\ Len(message_logs') = Len(message_logs) + 1
                  /\ message_logs'[Len(message_logs')].node = successor
                  /\ contact_sessions'[mine.id].context =
                         Put(mine.context, NodeOf(mine).properties.variableName.s,
                             call.invocation[w].payload.text)]_vars

\* one session, whose closing message k2 was sent twice, once with each input,
\* and whose context holds the input of the invocation that wrote last
C15_Witness ==
    /\ Len(contact_sessions) = 1
    /\ Len(message_logs) = 3
    /\ message_logs[2].node = "k2" /\ message_logs[3].node = "k2"
    /\ message_logs[2].body = <<"Bye ", "a">>
    /\ message_logs[3].body = <<"Bye ", "b">>
    /\ Get(contact_sessions[1].context, name) = Str(<<"b">>)


(***************************************************************************)
(* The auto-advance pass node by node: startFlow inserts the session, and  *)
(* every step is one call of executeNode up to the call it makes for the   *)
(* next node                                                               *)
(***************************************************************************)
\* the nodes one pass is followed for
MaxHops == 4

PassFlows ==
    {"F1", "F3", "F7", "F10", "F12", "F14", "F18", "F19", "F20", "F21", "F22", "F23",
     "F24"}

\* the node one call of executeNode goes on to, "" when it makes no further call:
\* the connection of the handle for a condition, else the first connection
NextNode(node, context) ==
    LET handle == IF evaluateCondition(node.properties, context) THEN "true" ELSE "false"
        connection == IF node.type = "condition" THEN HandleConnection(node, handle)
                      ELSE 0
    IN  IF connection # 0 THEN node.connections[connection].targetNodeId
        ELSE IF Len(node.connections) > 0 THEN node.connections[1].targetNodeId
        ELSE ""

\* whether executeNode returns for the node without advanceToDefaultNext or a
\* call for the next node: a node that is missing, that throws, or that waits
Returns(allNodes, nodeId) ==
    \/ ~HasNode(allNodes, nodeId)
    \/ LET node == FindNode(allNodes, nodeId)
       IN  \/ /\ node.properties = Null
              /\ node.type \in {"message", "button", "list", "input", "condition", "tag",
                                "handoff"}
           \/ node.type \in {"input", "handoff"}
           \/ node.type \in {"message", "button", "list"} /\ hasInteractive(node)

\* one call of executeNode up to the call for the next node: [db, next]
enterNode(db, session, nodeId, allNodes, t, fails) ==
    IF Returns(allNodes, nodeId)
    THEN [db |-> executeNode(db, session, nodeId, allNodes, t, fails), next |-> ""]
    ELSE
    LET node == FindNode(allNodes, nodeId)
        db1 == [db EXCEPT !.sessions[session.id].current_node_id = nodeId,
                          !.sessions[session.id].last_interaction_at = t]
        db2 == addExecutionTrace(db1, session.id, node.id, node.type, "node_entered")
        db3 == CASE node.type \in {"message", "button", "list"} ->
                      sendMessage(db2, session.phone_number, node.properties, node.id,
                                  session.context, fails)
                 [] node.type = "tag" ->
                      TagContact(db2, session.phone_number, node.properties)
                 [] node.type = "webhook" -> fireWebhook(db2, node.properties)
                 [] OTHER -> db2
        next == NextNode(node, session.context)
    IN  IF next = "" THEN [db |-> endSession(db3, session.id, "completed", t), next |-> ""]
        ELSE [db |-> db3, next |-> next]

PassInit ==
    /\ StoreInit
    /\ call = [pc |-> "idle"]

\* startFlow up to its call of executeNode
PassStart ==
    \E p \in Phones, f \in PassFlows, data \in InitialData, fails \in FailedSends :
        LET db1 == GetOrCreateContact(Db, p)
            session == NewSession(Len(db1.sessions) + 1, p, f, Flows[f].first_node_id,
                                  data, now)
        IN  /\ call.pc # "run"
            /\ Commit([db1 EXCEPT !.sessions = Append(@, session)])
            /\ call' = [pc |-> "run", session |-> session, next |-> session.current_node_id,
                        path |-> <<>>, fails |-> fails]
            /\ UNCHANGED now

\* executeNode for the next node of the pass
PassStep ==
    /\ call.pc = "run"
    /\ Len(call.path) < MaxHops
    /\ LET r == enterNode(Db, call.session, call.next, NodesOf(call.session.flow_id),
                          now, call.fails)
       IN  /\ Commit(r.db)
           /\ call' = [call EXCEPT !.pc = IF r.next = "" THEN "done" ELSE "run",
                                   !.next = r.next,
                                   !.path = Append(@, call.next)]
    /\ UNCHANGED now

PassNext == PassStart \/ PassStep

SpecPass == PassInit /\ [][PassNext]_vars

\* the nodes the pass has executed
Executed == {call.path[i] : i \in 1..Len(call.path)}

\* C18: the auto-advance pass started by one startFlow call terminates.  A pass
\* reads the context of the session row its caller read and nothing it writes, so
\* the node it goes on to depends on the node it executes alone, and a pass that
\* comes back to a node it has executed goes round for ever; the pass terminates
\* exactly if the node it is about to execute is never one it has executed.
C18_PassTerminates ==
    call.pc = "run" => call.next \notin Executed


(***************************************************************************)
(* Properties of replies that name no option, and of list nodes            *)
(***************************************************************************)
\* the tag before the index in the payload of a reply of that type
TagOf(type) == IF type = "button_reply" THEN "_btn_" ELSE "_list_"

\* the payload ends in the tag and an index
NamesIndex(payload, tag) ==
    Len(payload) = 3 /\ payload[2] = tag /\ payload[3] \in DigitChars

\* the reply names no option of the node: its payload does not end in an index,
\* or no connection of the node carries the index
NamesNoOption(node, payload, type) ==
    \/ ~NamesIndex(payload, TagOf(type))
    \/ ButtonTargets(node, DigitValue(payload[3])) = {}

\* the session s of the step enters the node as the first thing the step does
\* with it
EntersNext(s, nodeId) ==
    LET before == contact_sessions[s].execution_trace
        after == contact_sessions'[s].execution_trace
    IN  /\ Len(after) > Len(before)
        /\ after[Len(before) + 1].action = "node_entered"
        /\ after[Len(before) + 1].nodeId = nodeId

\* C19: when a button reply or a list reply arrives for a session that rests at a
\* button or message node with a connection, and the payload does not end in an
\* option index or no connection carries the index, the session goes on to the
\* target of the node's first connection: it neither ends at the node nor stays
\* there.
C19_UnmatchedReplyTakesFirstConnection ==
    [][\A p \in Phones, type \in {"button_reply", "list_reply"} :
        (/\ Handles(p, type)
         /\ LiveSession(p) # 0
         /\ HasNode(NodesOf(contact_sessions[LiveSession(p)].flow_id),
                    contact_sessions[LiveSession(p)].current_node_id)
         /\ NodeOf(contact_sessions[LiveSession(p)]).type \in {"button", "message"}
         /\ Len(NodeOf(contact_sessions[LiveSession(p)]).connections) > 0
         /\ NamesNoOption(NodeOf(contact_sessions[LiveSession(p)]), call'.payload.payload,
                          type))
        => EntersNext(LiveSession(p),
                      NodeOf(contact_sessions[LiveSession(p)]).connections[1].targetNodeId)
      ]_vars

\* the first node the session s enters in the step is one of the targets
FirstEntered(s, targets) ==
    LET before == contact_sessions[s].execution_trace
        after == contact_sessions'[s].execution_trace
    IN  \E k \in (Len(before) + 1)..Len(after) :
            /\ after[k].action = "node_entered"
            /\ after[k].nodeId \in targets
            /\ \A j \in (Len(before) + 1)..(k - 1) : after[j].action # "node_entered"

\* C20: when the session rests at a list node with list items and a list reply
\* arrives whose payload ends in _list_<i>, with a connection of buttonIndex i, the
\* node the session enters next is the target of that connection; the reply does
\* not end the session at the list node.
C20_ListReplyRouting ==
    [][\A p \in Phones :
        (/\ Handles(p, "list_reply")
         /\ LiveSession(p) # 0
         /\ HasNode(NodesOf(contact_sessions[LiveSession(p)].flow_id),
                    contact_sessions[LiveSession(p)].current_node_id)
         /\ NodeOf(contact_sessions[LiveSession(p)]).type = "list"
         /\ NodeOf(contact_sessions[LiveSession(p)]).properties # Null
         /\ Len(NodeOf(contact_sessions[LiveSession(p)]).properties.listItems) > 0
         /\ ~NamesNoOption(NodeOf(contact_sessions[LiveSession(p)]),
                           call'.payload.payload, "list_reply"))
        => FirstEntered(LiveSession(p),
                        ButtonTargets(NodeOf(contact_sessions[LiveSession(p)]),
                                      DigitValue(call'.payload.payload[3])))
      ]_vars


(***************************************************************************)
(* Properties of events that leave the sessions alone                      *)
(***************************************************************************)
\* the node offers buttons or list rows and waits for the reply
AwaitsReply(node) ==
    /\ node.type \in {"button", "message"}
    /\ node.properties # Null
    /\ hasInteractive(node)

\* C21: a plain text message that arrives while the sender's session rests at a
\* button node, or at a message node that waits for a button or list reply, changes
\* nothing: the session keeps its current node, status and context, no node is
\* executed (the trace is as it was) and no message is sent.
C21_TextAtButtonNodeIsNoOp ==
    [][\A p \in Phones :
        (/\ Handles(p, "message")
         /\ LiveSession(p) # 0
         /\ HasNode(NodesOf(contact_sessions[LiveSession(p)].flow_id),
                    contact_sessions[LiveSession(p)].current_node_id)
         /\ AwaitsReply(NodeOf(contact_sessions[LiveSession(p)])))
        => LET s == LiveSession(p)
           IN  /\ Len(contact_sessions') = Len(contact_sessions)
               /\ contact_sessions'[s].current_node_id = contact_sessions[s].current_node_id
               /\ contact_sessions'[s].status = contact_sessions[s].status
               /\ contact_sessions'[s].context = contact_sessions[s].context
               /\ contact_sessions'[s].execution_trace = contact_sessions[s].execution_trace
               /\ message_logs' = message_logs
      ]_vars

\* a text that starts no flow has been handled while the session rests at q1, the
\* first node of its flow, as it did when the text arrived
C21_Witness ==
    /\ call.fn = "handleIncomingEvent"
    /\ call.payload.type = "message"
    /\ call.matchedFlow = ""
    /\ LiveSession(call.payload.from) # 0
    /\ contact_sessions[LiveSession(call.payload.from)].current_node_id = "q1"
    /\ EnteredNodes(contact_sessions[LiveSession(call.payload.from)].execution_trace)
          = <<"q1">>
    /\ AwaitsReply(NodeOf(contact_sessions[LiveSession(call.payload.from)]))

\* the status events of the provider: of the first or second message sent or of
\* none (0), with a status or without one ("")
StatusEvents ==
    {Event("status", p, Undef, <<>>, id, status) :
        p \in Phones, id \in {0, 1, 2}, status \in {"", "read"}}

\* one status event, handled by handleIncomingEvent
StatusUpdate ==
    \E payload \in StatusEvents :
        /\ Commit(handleIncomingEvent(Db, payload, "", now, {}))
        /\ call' = [fn |-> "handleIncomingEvent", payload |-> payload, matchedFlow |-> ""]
        /\ UNCHANGED now

StatusNext == Trigger \/ Tick \/ StatusUpdate

\* flows are started, the clock moves on, and status events arrive
SpecStatus == Init /\ [][StatusNext]_vars

\* C22: a status event changes nothing but the status of the rows of message_logs
\* whose provider message id is the event's: every session row is as it was (no
\* status, node, context, trace or last interaction changes, none is expired),
\* no session is created and no message is sent.
C22_StatusEventTouchesNoSession ==
    [][(call'.fn = "handleIncomingEvent" /\ call'.payload.type = "status") =>
          /\ contact_sessions' = contact_sessions
          /\ Len(message_logs') = Len(message_logs)
          /\ \A i \in 1..Len(message_logs) :
                \/ message_logs'[i] = message_logs[i]
                \/ /\ message_logs[i].wati_message_id = call'.payload.messageId
                   /\ message_logs'[i] =
                         [message_logs[i] EXCEPT !.status = call'.payload.status]
      ]_vars

\* a status event has set a message to read while an active session was past the
\* timeout, and the session is still active
C22_Witness ==
    /\ call.fn = "handleIncomingEvent"
    /\ call.payload.type = "status"
    /\ \E i \in 1..Len(message_logs) :
          /\ message_logs[i].wati_message_id = call.payload.messageId
          /\ message_logs[i].status = "read"
    /\ \E i \in 1..Len(message_logs) : message_logs[i].status = "sent"
    /\ \E i \in 1..Len(contact_sessions) :
          contact_sessions[i].status = "active" /\ Stale(i)

\* C23: when the sender has no session to continue, an inbound text that names no
\* keyword flow, a button reply and a list reply are dropped: no session and no
\* contact is created, no message is sent and no error is logged.
C23_UnmatchedEventDropped ==
    [][\A p \in Phones :
        (/\ LiveSession(p) = 0
         /\ \/ Handles(p, "button_reply")
            \/ Handles(p, "list_reply")
            \/ /\ Handles(p, "message")
               /\ call'.payload.text.t = "str"
               /\ KeywordMatches(call'.payload.text.s) = {})
        => /\ Len(contact_sessions') = Len(contact_sessions)
           /\ contacts' = contacts
           /\ message_logs' = message_logs
           /\ error_logs' = error_logs
      ]_vars

\* the text "ok", the trigger value of an inactive and of a manual flow, was
\* handled for a sender without a session, and the tables are still empty
C23_Witness ==
    /\ call.fn = "handleIncomingEvent"
    /\ call.payload.type = "message"
    /\ call.payload.text = Str(<<"o", "k">>)
    /\ contact_sessions = <<>>
    /\ contacts = <<>>
    /\ message_logs = <<>>
    /\ error_logs = <<>>


(***************************************************************************)
(* Input nodes: flows are started and texts arrive                         *)
(***************************************************************************)
InputFlows == {"F1", "F3", "F15"}

InputTexts ==
    {<<"5">>, <<"o", "k">>, <<"a", "@", "b", ".", "c">>, <<"a", "@", "b">>, <<" ">>}

InputEvents == {Event("message", p, Str(x), <<>>, 0, "") : p \in Phones, x \in InputTexts}

InputTrigger ==
    \E p \in Phones, f \in InputFlows, data \in InitialData :
        /\ Commit(getSession(startFlow(Db, p, f, data, now, {}), p, now).db)
        /\ call' = [fn |-> "startFlow", phoneNumber |-> p, flowId |-> f]
        /\ UNCHANGED now

InputInbound ==
    \E payload \in InputEvents :
        \E matchedFlow \in FlowsFound(payload) :
            /\ Commit(handleIncomingEvent(Db, payload, matchedFlow, now, {}))
            /\ call' = [fn |-> "handleIncomingEvent", payload |-> payload,
                        matchedFlow |-> matchedFlow]
            /\ UNCHANGED now

InputNext == InputTrigger \/ InputInbound

SpecInput == Init /\ [][InputNext]_vars

\* the text is a valid input of the node's inputType (text when none is set): a
\* text or phone input takes any text that is not empty, a number input a text of
\* digits, an e-mail input a text of the form x@y.z without blanks
ValidInput(node, text) ==
    LET inputType == IF Truthy(node.properties.inputType)
                     THEN node.properties.inputType.s ELSE <<"text">>
    IN  /\ text # <<>>
        /\ inputType \in {<<"text">>, <<"phone">>, <<"number">>, <<"email">>}
        /\ inputType = <<"number">> => \A k \in 1..Len(text) : text[k] \in DigitChars
        /\ inputType = <<"email">> => IsEmail(text)

\* the value captured from a valid input: the number for a number input, else the
\* text
InputValue(node, text) ==
    IF node.properties.inputType = Str(<<"number">>) THEN Num(DigitsValue(text))
    ELSE Str(text)

\* C24: when the session rests at an input node and a text arrives that is valid
\* for the node's inputType, the value is stored in the session's context under
\* the node's variableName, the same key and value are put into the attributes of
\* the contact, the other keys of both stay as they are, an input_captured entry
\* is appended to the trace, and the session enters the target of the node's
\* first connection, or is ended as completed when the node has no connection.
C24_ValidInputCaptured ==
    [][\A p \in Phones :
        (/\ Handles(p, "message")
         /\ LiveSession(p) # 0
         /\ HasNode(NodesOf(contact_sessions[LiveSession(p)].flow_id),
                    contact_sessions[LiveSession(p)].current_node_id)
         /\ NodeOf(contact_sessions[LiveSession(p)]).type = "input"
         /\ NodeOf(contact_sessions[LiveSession(p)]).properties # Null
         /\ Truthy(NodeOf(contact_sessions[LiveSession(p)]).properties.variableName)
         /\ ValidInput(NodeOf(contact_sessions[LiveSession(p)]), call'.payload.text.s))
        => LET s == LiveSession(p)
               node == NodeOf(contact_sessions[s])
               var == node.properties.variableName.s
               value == InputValue(node, call'.payload.text.s)
               c == ContactIndex(Db, p)
               before == contact_sessions[s].execution_trace
               after == contact_sessions'[s].execution_trace
           IN  /\ Get(contact_sessions'[s].context, var) = value
               /\ \A e \in {contact_sessions[s].context.o[k] :
                                k \in 1..Len(contact_sessions[s].context.o)} :
                     e.k # var => Get(contact_sessions'[s].context, e.k) = e.v
               /\ c # 0
               /\ Get(contacts'[c].attributes, var) = value
               /\ \A e \in {contacts[c].attributes.o[k] :
                                k \in 1..Len(contacts[c].attributes.o)} :
                     e.k # var => Get(contacts'[c].attributes, e.k) = e.v
               /\ Len(after) > Len(before)
               /\ SubSeq(after, 1, Len(before)) = before
               /\ after[Len(before) + 1] =
                     [nodeId |-> node.id, nodeType |-> "input", action |-> "input_captured"]
               /\ IF Len(node.connections) > 0
                  THEN /\ Len(after) >= Len(before) + 2
                       /\ after[Len(before) + 2].action = "node_entered"
                       /\ after[Len(before) + 2].nodeId = node.connections[1].targetNodeId
                  ELSE /\ Len(after) = Len(before) + 1
                       /\ contact_sessions'[s].status = "completed"
      ]_vars

\* an e-mail address was captured at a1, which ended its session, and then the
\* name ok at k1, whose session went on to k2; the contact has both
C24_Witness ==
    /\ call.fn = "handleIncomingEvent"
    /\ call.payload.text = Str(<<"o", "k">>)
    /\ Len(contact_sessions) = 2
    /\ contact_sessions[1].status = "completed"
    /\ EnteredNodes(contact_sessions[1].execution_trace) = <<"a1", "a1">>
    /\ Get(contact_sessions[1].context, mail) = Str(<<"a", "@", "b", ".", "c">>)
    /\ EnteredNodes(contact_sessions[2].execution_trace) = <<"k1", "k1", "k2">>
    /\ contact_sessions[2].execution_trace[2].action = "input_captured"
    /\ Get(contact_sessions[2].context, name) = Str(<<"o", "k">>)
    /\ Get(contacts[1].attributes, mail) = Str(<<"a", "@", "b", ".", "c">>)
    /\ Get(contacts[1].attributes, name) = Str(<<"o", "k">>)


(***************************************************************************)
(* Handoff: flows are started and events arrive after the handoff          *)
(***************************************************************************)
HandoffFlows == {"F3", "F16"}

HandoffEvents ==
    {Event("message", p, Str(x), <<>>, 0, "") :
        p \in Phones, x \in {<<"o", "k">>, <<" ", "H", "i", " ">>}}
    \cup {Event("button_reply", p, Str(<<"A">>), <<"g1", "_btn_", "0">>, 0, "") :
             p \in Phones}

HandoffTrigger ==
    \E p \in Phones, f \in HandoffFlows, data \in InitialData :
        /\ Commit(getSession(startFlow(Db, p, f, data, now, {}), p, now).db)
        /\ call' = [fn |-> "startFlow", phoneNumber |-> p, flowId |-> f]
        /\ UNCHANGED now

HandoffInbound ==
    \E payload \in HandoffEvents :
        \E matchedFlow \in FlowsFound(payload) :
            /\ Commit(handleIncomingEvent(Db, payload, matchedFlow, now, {}))
            /\ call' = [fn |-> "handleIncomingEvent", payload |-> payload,
                        matchedFlow |-> matchedFlow]
            /\ UNCHANGED now

HandoffNext == HandoffTrigger \/ HandoffInbound \/ Tick

SpecHandoff == Init /\ [][HandoffNext]_vars

\* the entries the step appends to the trace of session s
NewEntries(s) ==
    SubSeq(contact_sessions'[s].execution_trace,
           Len(contact_sessions[s].execution_trace) + 1,
           Len(contact_sessions'[s].execution_trace))

\* the sessions that exist after the step
SessionsAfter == 1..Len(contact_sessions')

\* C25: a session that enters a handoff node is sent the node's message and set
\* to paused, and the handoff node is the last node it enters in the pass; a
\* paused session is never changed again, by no later event and no later start of
\* a flow; and getSession never returns it, so that later events of the contact
\* are handled without it.
C25_HandoffPausesForGood ==
    [][/\ \A s \in SessionsAfter :
            LET trace == contact_sessions'[s].execution_trace
                from == IF s > Len(contact_sessions) THEN 1
                        ELSE Len(contact_sessions[s].execution_trace) + 1
            IN  \A k \in from..Len(trace) :
                    (trace[k].action = "node_entered" /\ trace[k].nodeType = "handoff")
                    => /\ k = Len(trace)
                       /\ contact_sessions'[s].status = "paused"
                       /\ Len(message_logs') > Len(message_logs)
                       /\ message_logs'[Len(message_logs')].node = trace[k].nodeId
                       /\ message_logs'[Len(message_logs')].phone_number
                             = contact_sessions'[s].phone_number
       /\ \A s \in 1..Len(contact_sessions) :
            contact_sessions[s].status = "paused"
            => /\ contact_sessions'[s] = contact_sessions[s]
               /\ getSession(Db, contact_sessions[s].phone_number, now).session.id # s
      ]_vars

\* F16 was started and paused at g1 after the messages of g0 and g1, and a button
\* reply that names g1 has then been handled: the session is as the handoff left it
C25_Witness ==
    /\ call.fn = "handleIncomingEvent"
    /\ call.payload.type = "button_reply"
    /\ Len(contact_sessions) = 1
    /\ contact_sessions[1].status = "paused"
    /\ contact_sessions[1].current_node_id = "g1"
    /\ EnteredNodes(contact_sessions[1].execution_trace) = <<"g0", "g1">>
    /\ Len(message_logs) = 2
    /\ message_logs[2].body = <<"Wait">>


(***************************************************************************)
(* addExecutionTrace in two invocations: the select of execution_trace and *)
(* the update that writes it back are separate awaited requests            *)
(***************************************************************************)
\* the entries a trace is followed for
MaxTrace == 3

\* the entries the handlers of a reply at q1 record
TraceEntries ==
    {[nodeId |-> "q1", nodeType |-> "message", action |-> "button_clicked"],
     [nodeId |-> "qN", nodeType |-> "message", action |-> "node_entered"]}

TraceInit ==
    /\ StoreInit
    /\ call = [fn |-> "addExecutionTrace",
               invocation |-> [w \in Invocations |->
                                  [pc |-> "idle", sessionId |-> 0, traces |-> <<>>,
                                   trace |-> CHOOSE e \in TraceEntries : TRUE]]]

\* POST /trigger/:flowId for F2: the session rests at q1
TraceTrigger ==
    /\ \E p \in Phones, data \in InitialData :
          Commit(getSession(startFlow(Db, p, "F2", data, now, {}), p, now).db)
    /\ UNCHANGED <<now, call>>

\* a handler calls addExecutionTrace(sessionId, trace)
TraceCall(w) ==
    /\ call.invocation[w].pc = "idle"
    /\ \E sessionId \in 1..Len(contact_sessions), trace \in TraceEntries :
          call' = [call EXCEPT !.invocation[w] =
                      [pc |-> "called", sessionId |-> sessionId, trace |-> trace,
                       traces |-> <<>>]]
    /\ UNCHANGED store

\* select('execution_trace').eq('id', sessionId).single()
TraceSelect(w) ==
    /\ call.invocation[w].pc = "called"
    /\ call' = [call EXCEPT
                  !.invocation[w].pc = "selected",
                  !.invocation[w].traces =
                      contact_sessions[call.invocation[w].sessionId].execution_trace]
    /\ UNCHANGED store

\* traces.push(trace) and update({execution_trace: traces}).eq('id', sessionId)
TraceUpdate(w) ==
    /\ call.invocation[w].pc = "selected"
    /\ Len(call.invocation[w].traces) < MaxTrace
    /\ Commit(addExecutionTrace(
                 [Db EXCEPT !.sessions[call.invocation[w].sessionId].execution_trace =
                                call.invocation[w].traces],
                 call.invocation[w].sessionId, call.invocation[w].trace.nodeId,
                 call.invocation[w].trace.nodeType, call.invocation[w].trace.action))
    /\ call' = [call EXCEPT !.invocation[w].pc = "idle"]
    /\ UNCHANGED now

TraceNext ==
    \/ TraceTrigger
    \/ \E w \in Invocations : TraceCall(w) \/ TraceSelect(w) \/ TraceUpdate(w)

SpecTrace == TraceInit /\ [][TraceNext]_vars

\* C27: the execution trace of a session is append-only: whatever the handlers do
\* and however they interleave, a step leaves every recorded entry in its place,
\* and a call of addExecutionTrace adds exactly one entry at the end.
C27_TraceAppendOnly ==
    [][\A s \in 1..Len(contact_sessions) :
          LET before == contact_sessions[s].execution_trace
              after == contact_sessions'[s].execution_trace
          IN  /\ Len(after) >= Len(before)
              /\ SubSeq(after, 1, Len(before)) = before
              /\ \A w \in Invocations :
                    (/\ call.invocation[w].pc = "selected"
                     /\ call'.invocation[w].pc = "idle"
                     /\ call.invocation[w].sessionId = s)
                    => after = Append(before, call.invocation[w].trace)]_vars


(***************************************************************************)
(* The webhook node step by step: the request is made, its promise         *)
(* settles, and advanceToDefaultNext is called                             *)
(***************************************************************************)
HookFlows == {"F12", "F17"}

HookInit ==
    /\ StoreInit
    /\ call = [fn |-> "executeNode", pc |-> "idle"]

\* startFlow up to its call of executeNode for the first node, a webhook node
HookStart ==
    \E p \in Phones, f \in HookFlows, data \in InitialData, fails \in FailedSends :
        LET db1 == GetOrCreateContact(Db, p)
            session == NewSession(Len(db1.sessions) + 1, p, f, Flows[f].first_node_id,
                                  data, now)
        IN  /\ call.pc \in {"idle", "done"}
            /\ Commit([db1 EXCEPT !.sessions = Append(@, session)])
            /\ call' = [fn |-> "executeNode", pc |-> "entered", session |-> session,
                        node |-> FindNode(NodesOf(f), session.current_node_id),
                        request |-> "none", fails |-> fails]
            /\ UNCHANGED now

\* executeNode up to the switch, and case 'webhook' up to axios(...): the session
\* is moved to the node, the trace is written and the request is made
HookRequest ==
    /\ call.pc = "entered"
    /\ call.node.type = "webhook" /\ Truthy(call.node.properties.url)
    /\ Commit(addExecutionTrace(
                 [Db EXCEPT !.sessions[call.session.id].current_node_id = call.node.id,
                            !.sessions[call.session.id].last_interaction_at = now],
                 call.session.id, call.node.id, call.node.type, "node_entered"))
    /\ call' = [call EXCEPT !.pc = "awaiting", !.request = "pending"]
    /\ UNCHANGED now

\* await axios(...): the endpoint answers, or the request fails or times out and
\* the catch of the case swallows the error
HookSettles ==
    /\ call.pc = "awaiting"
    /\ call' = [call EXCEPT !.pc = "settled",
                            !.request = IF call.node.properties.url \in Unreachable
                                        THEN "failed" ELSE "answered"]
    /\ UNCHANGED store

\* await this.advanceToDefaultNext(session, node, allNodes)
HookAdvance ==
    /\ call.pc = "settled"
    /\ Commit(advanceToDefaultNext(Db, call.session, call.node,
                                   NodesOf(call.session.flow_id), now, call.fails))
    /\ call' = [call EXCEPT !.pc = "done"]
    /\ UNCHANGED now

\* the clock moves on to a later reading, between calls or while one is under way
HookTick ==
    \E h \in ClockReadings :
        /\ h > now
        /\ now' = h
        /\ UNCHANGED <<contact_sessions, contacts, message_logs, error_logs, call>>

HookNext == HookStart \/ HookRequest \/ HookSettles \/ HookAdvance \/ HookTick

SpecHook == HookInit /\ [][HookNext]_vars

\* the step enters the node that follows the webhook node of the call
EntersSuccessor ==
    /\ call.pc \in {"awaiting", "settled"}
    /\ Len(call.node.connections) > 0
    /\ \E k \in 1..Len(NewEntries(call.session.id)) :
          /\ NewEntries(call.session.id)[k].action = "node_entered"
          /\ NewEntries(call.session.id)[k].nodeId = call.node.connections[1].targetNodeId

\* C28: a webhook node makes its HTTP request without waiting for the answer: the
\* node that follows is entered while the request is still pending; and a request
\* that has failed does not stop the pass, the node that follows is still entered.
C28_WebhookNotAwaited ==
    [][/\ EntersSuccessor => call.request = "pending"
       /\ (call.pc = "settled" /\ call.request = "failed" /\ call'.pc = "done")
            => EntersSuccessor]_vars


(***************************************************************************)
(* Properties of http nodes in the engine                                  *)
(***************************************************************************)
\* the node is an http node with a url and a response variable
StoresResponse(node) ==
    /\ node.type = "http"
    /\ node.properties # Null
    /\ Truthy(node.properties.url)
    /\ Truthy(node.properties.responseVariable)

\* C29: when the pass executes an http node that has a url and names a response
\* variable, and the request succeeds (no endpoint of an http node is down here),
\* the context of the session holds the response under that name once the node is
\* executed, before the next node is.
C29_HttpResponseStored ==
    [][(/\ call.pc = "run"
        /\ call'.pc \in {"run", "done"}
        /\ call'.path # call.path
        /\ HasNode(NodesOf(call.session.flow_id), call.next)
        /\ StoresResponse(FindNode(NodesOf(call.session.flow_id), call.next)))
       => HasKey(contact_sessions'[call.session.id].context,
                 FindNode(NodesOf(call.session.flow_id),
                          call.next).properties.responseVariable.s)]_vars


(***************************************************************************)
(* webhookController.js: handleWhatsAppWebhook, the handler that keeps no  *)
(* session. Table nodes is read through previous_node_id ("" for null);    *)
(* table conversations is message_logs; call.posts holds the calls of      *)
(* sendReply in the order they were made, none of which is awaited         *)
(***************************************************************************)
ReplyNode(id, node_id, previous_node_id, node_name, type, properties) ==
    [id |-> id, node_id |-> node_id, previous_node_id |-> previous_node_id,
     name |-> node_name, type |-> type, properties |-> properties]

ReplyButton(btn_id, text) == [btn_id |-> btn_id, text |-> text]

\* the rows of table nodes of the one flow the handler serves
ReplyRows ==
    { ReplyNode("1", "k1", "", <<"first">>, "message",
                [NoProperties EXCEPT !.label = Str(<<"One">>)]),
      ReplyNode("2", "k2", "k1", <<"Two">>, "message", NoProperties),
      ReplyNode("3", "k3", "k2", <<"third">>, "button",
                [NoProperties EXCEPT !.label = Str(<<"Pick">>),
                                     !.buttons = <<ReplyButton("y", <<"Y">>),
                                                   ReplyButton("n", <<"N">>),
                                                   ReplyButton("w", <<"W">>)>>]),
      \* button y: an http node that names a response variable
      ReplyNode("4", "k4", "y", <<"fetch">>, "http",
                [NoProperties EXCEPT !.url = Str(<<"https://api">>),
                                     !.responseVariable = Str(<<"r", "e", "s">>)]),
      ReplyNode("5", "k5", "k4", <<"shown">>, "message",
                [NoProperties EXCEPT
                    !.label = Str(<<"{", "{", "r", "e", "s", ".", "x", "}", "}">>)]),
      \* button n: an http node without a response variable
      ReplyNode("6", "k6", "n", <<"ping">>, "http",
                [NoProperties EXCEPT !.url = Str(<<"https://api">>)]),
      ReplyNode("7", "k7", "k6", <<"after">>, "message",
                [NoProperties EXCEPT !.label = Str(<<"After">>)]),
      \* button w: an input node, then a closing message
      ReplyNode("8", "k8", "w", <<"city">>, "input",
                [NoProperties EXCEPT !.label = Str(<<"Your city?">>)]),
      ReplyNode("9", "k9", "k8", <<"bye">>, "message",
                [NoProperties EXCEPT !.label = Str(<<"Thanks">>)]) }

\* properties?.label || node.name || fallback
LabelOf(node, fallback) ==
    IF Truthy(node.properties.label) THEN node.properties.label.s
    ELSE IF node.name # <<>> THEN node.name ELSE fallback

TextContent(to, body) == [to |-> to, type |-> "text", body |-> body, buttons |-> <<>>]

\* buttons.slice(0, 3).map(btn => ({type: 'reply', reply: {id, title}}))
InteractiveContent(to, body, buttons) ==
    [to |-> to, type |-> "interactive", body |-> body,
     buttons |-> [i \in 1..(IF Len(buttons) < 3 THEN Len(buttons) ELSE 3) |->
                    [id |-> buttons[i].btn_id, title |-> buttons[i].text]]]

\* what the caller's destructuring { messageContent, currentNodeId } sees
Reply(messageContent, currentNodeId, sent) ==
    [messageContent |-> messageContent, currentNodeId |-> currentNodeId, sent |-> sent]

\* the http branch of getNextNode: outcome "failed" is a request that throws
\* (no answer, or none within the timeout), data the body of an answer
httpReply(node, phoneNumber, outcome, data, sent) ==
    IF Truthy(node.properties.url) /\ outcome = "failed"
    THEN \* the catch returns a bare message object, which has neither key
         Reply(Undef, Undef, sent)
    ELSE LET following == {n \in ReplyRows : n.previous_node_id = node.node_id}
             nextNode == CHOOSE n \in following : TRUE
             responseToWhatsapp ==
                 IF /\ Truthy(node.properties.url)
                    /\ Truthy(node.properties.responseVariable)
                    /\ Cardinality(following) = 1
                    /\ Truthy(nextNode.properties.label)
                 THEN LET replacedLabel ==
                              replacePlaceholders(nextNode.properties.label.s,
                                                  node.properties.responseVariable.s,
                                                  data)
                      IN  CASE nextNode.type = "message" ->
                                   TextContent(phoneNumber, replacedLabel)
                            [] nextNode.type = "button" ->
                                   InteractiveContent(phoneNumber, replacedLabel,
                                                      nextNode.properties.buttons)
                            [] OTHER -> Null
                 ELSE Null
         IN  IF responseToWhatsapp # Null
             THEN Reply(responseToWhatsapp, Str(<<node.id>>), sent)
             ELSE Reply(TextContent(phoneNumber, <<"Variable not handle">>), Null, sent)

\* getNextNode(isFirstMessage, current_node_id, phoneNumber, isButtonClick, flowId):
\* sent collects the calls sendReply(messageContent, flowId, node.id) it makes
RECURSIVE getNextNode(_, _, _, _, _, _, _)
getNextNode(isFirstMessage, current_node_id, phoneNumber, isButtonClick, outcome, data, sent) ==
    LET found == IF isFirstMessage
                 THEN {n \in ReplyRows : n.previous_node_id = ""}
                 ELSE IF isButtonClick
                      THEN {n \in ReplyRows : n.previous_node_id = current_node_id}
                      ELSE {}
    IN  IF Cardinality(found) # 1 THEN Reply(Null, Null, sent)
        ELSE LET node == CHOOSE n \in found : TRUE
             IN  CASE node.type = "button" ->
                        Reply(InteractiveContent(phoneNumber,
                                                 LabelOf(node, <<"Choose an option">>),
                                                 node.properties.buttons),
                              Str(<<node.id>>), sent)
                   [] node.type = "message" ->
                        getNextNode(FALSE, node.node_id, phoneNumber, TRUE, outcome, data,
                                    Append(sent,
                                           [content |-> TextContent(phoneNumber,
                                                                    LabelOf(node, <<"Hello">>)),
                                            node_id |-> Str(<<node.id>>)]))
                   [] node.type = "http" ->
                        httpReply(node, phoneNumber, outcome, data, sent)
                   [] node.type = "input" ->
                        Reply(TextContent(phoneNumber, LabelOf(node, <<"Hello">>)),
                              Str(<<node.id>>), sent)
                   [] OTHER ->
                        Reply(TextContent(phoneNumber, LabelOf(node, <<"Message">>)),
                              Str(<<node.id>>), sent)

RECURSIVE NumberedTitles(_, _)
NumberedTitles(buttons, i) ==
    IF i > Len(buttons) THEN <<>>
    ELSE (IF i > 1 THEN <<"\n">> ELSE <<>>)
         \o NatToString(i) \o <<".", " ">> \o buttons[i].title
         \o NumberedTitles(buttons, i + 1)

\* sendReply: the text it stores for a message that was sent
messageText(messageContent) ==
    IF messageContent.type = "text" THEN messageContent.body
    ELSE IF messageContent.buttons = <<>> THEN messageContent.body
         ELSE messageContent.body \o <<"\n", "\n">>
              \o NumberedTitles(messageContent.buttons, 1)

MaxPosts == 4

MaxEvents == 3

\* message.text.body: greetings, the name of a city, and a number
ReplyTexts ==
    {<<"H", "i">>, <<"o", "h", " ", "H", "E", "L", "L", "O">>,
     <<"D", "e", "l", "h", "i">>, <<"4", "2">>}

\* message.text.body.toLowerCase().includes('hi') || ...includes('hello')
IsGreeting(text) ==
    \/ includes(toLowerCase(text), <<"h", "i">>)
    \/ includes(toLowerCase(text), <<"h", "e", "l", "l", "o">>)

ClickedIds == {"y", "n", "w", "k3"}

\* the answers of the endpoint of an http node
HttpBodies == {Obj(<<[k |-> <<"x">>, v |-> Str(<<"1">>)]>>), Str(<<"o", "k">>)}

ReplyInit ==
    /\ StoreInit
    /\ call = [fn |-> "reply", events |-> 0, posts |-> <<>>,
               node |-> "", outcome |-> "none", text |-> <<>>, apologies |-> 0]

\* lines 585-590: what the handler does with the result of getNextNode; the posts
\* of the event are those sendReply was called with, in the order of the calls
Handled(r, outcome, current_node_id, text) ==
    LET last == IF r.messageContent \notin {Null, Undef}
                THEN <<[content |-> r.messageContent, node_id |-> r.currentNodeId]>>
                ELSE <<>>
        made == r.sent \o last
    IN  /\ call.events < MaxEvents
        /\ Len(call.posts) + Len(made) <= MaxPosts
        /\ call' = [call EXCEPT
                      !.events = call.events + 1,
                      !.outcome = outcome,
                      !.node = current_node_id,
                      !.text = text,
                      !.posts = call.posts \o
                                [i \in 1..Len(made) |->
                                   [content |-> made[i].content,
                                    node_id |-> made[i].node_id,
                                    event |-> call.events + 1,
                                    state |-> "pending", row |-> 0]]]
        /\ UNCHANGED store

\* a text message that holds hi or hello: the flow starts at its first node
ReplyGreeting ==
    \E p \in Phones, text \in ReplyTexts, outcome \in {"ok", "failed"},
       data \in HttpBodies :
        /\ call.fn = "reply"
        /\ IsGreeting(text)
        /\ Handled(getNextNode(TRUE, "", p, FALSE, outcome, data, <<>>), outcome, "",
                   text)

\* the rows of table conversations of the phone number, the newest last
BotRows(phoneNumber) ==
    SelectSeq(message_logs, LAMBDA row : row.phone_number = phoneNumber)

\* any other text: the node of the newest bot message is looked up, and the flow
\* goes on after it when it is an input node; else sendTextMessage apologises.
\* lastMessage.node_id throws for a contact without a bot message, and the catch of
\* the handler answers 200
ReplyAnswer ==
    \E p \in Phones, text \in ReplyTexts, outcome \in {"ok", "failed"},
       data \in HttpBodies :
        /\ call.fn = "reply"
        /\ ~IsGreeting(text)
        /\ LET rows == BotRows(p)
               lastMessage == rows[Len(rows)]
               found == IF rows = <<>> THEN {}
                        ELSE {n \in ReplyRows : Str(<<n.id>>) = lastMessage.node_id}
               nextNode == CHOOSE n \in found : TRUE
           IN  IF found # {} /\ nextNode.type = "input"
               THEN Handled(getNextNode(FALSE, nextNode.node_id, p, TRUE, outcome, data,
                                        <<>>),
                            outcome, nextNode.node_id, text)
               ELSE /\ call.events < MaxEvents
                    /\ call' = [call EXCEPT
                                  !.events = call.events + 1,
                                  !.outcome = "none",
                                  !.node = "",
                                  !.text = text,
                                  !.apologies = IF rows = <<>> THEN @ ELSE @ + 1]
                    /\ UNCHANGED store

\* an interactive message: the node whose previous_node_id is the id of the
\* button that was clicked
ReplyButtonClick ==
    \E p \in Phones, buttonId \in ClickedIds, outcome \in {"ok", "failed"},
       data \in HttpBodies :
        /\ call.fn = "reply"
        /\ Handled(getNextNode(FALSE, buttonId, p, TRUE, outcome, data, <<>>), outcome,
                   buttonId, <<>>)

\* sendReply after its await: the post is answered, and only then storeBotMessage
\* writes the row of table conversations
ReplySent ==
    \E i \in DOMAIN call.posts :
        /\ call.fn = "reply"
        /\ call.posts[i].state = "pending"
        /\ LET text == messageText(call.posts[i].content)
           IN  IF text # <<>>
               THEN /\ message_logs' = Append(message_logs,
                                              [phone_number |-> call.posts[i].content.to,
                                               message_type |-> "bot",
                                               message |-> text,
                                               node_id |-> call.posts[i].node_id,
                                               status |-> "sent"])
                    /\ call' = [call EXCEPT !.posts[i].state = "sent",
                                            !.posts[i].row = Len(message_logs) + 1]
               ELSE /\ call' = [call EXCEPT !.posts[i].state = "sent"]
                    /\ UNCHANGED message_logs
        /\ UNCHANGED <<contact_sessions, contacts, error_logs, now>>

\* sendReply when the post throws: the catch logs to the console and stores nothing
ReplyRefused ==
    \E i \in DOMAIN call.posts :
        /\ call.fn = "reply"
        /\ call.posts[i].state = "pending"
        /\ call' = [call EXCEPT !.posts[i].state = "failed"]
        /\ UNCHANGED store

ReplyNext ==
    ReplyGreeting \/ ReplyAnswer \/ ReplyButtonClick \/ ReplySent \/ ReplyRefused

SpecReply == ReplyInit /\ [][ReplyNext]_vars

\* C26: the messages of one inbound event are stored in table conversations in the
\* order in which their nodes were traversed: of two messages of an event that are
\* both stored, the one handed to sendReply first has the earlier row.
C26_SentInTraversalOrder ==
    call.fn = "reply" =>
        \A i, j \in DOMAIN call.posts :
            (/\ i < j
             /\ call.posts[i].event = call.posts[j].event
             /\ call.posts[i].row > 0
             /\ call.posts[j].row > 0)
            => call.posts[i].row < call.posts[j].row

\* the node a button click leads to
ClickedNode(buttonId) == CHOOSE n \in ReplyRows : n.previous_node_id = buttonId

\* C30: when a click leads to an http node whose request fails, the message of the
\* node that follows the http node is still handed to sendReply.
C30_FailedRequestStillAdvances ==
    [][\A buttonId \in {"y", "n"} :
          (/\ call.fn = "reply"
           /\ call'.events = call.events + 1
           /\ call'.outcome = "failed"
           /\ call'.node = buttonId)
          => \E k \in (Len(call.posts) + 1)..Len(call'.posts) :
                 \E n \in ReplyRows :
                     /\ n.previous_node_id = ClickedNode(buttonId).node_id
                     /\ call'.posts[k].node_id = Str(<<n.id>>)]_vars


(***************************************************************************)
(* Failed sends                                                            *)
(***************************************************************************)
\* the rows of two stores agree in all but the outcome of the send
SameMessages(logs, others) ==
    /\ Len(logs) = Len(others)
    /\ \A i \in DOMAIN logs :
          /\ logs[i].phone_number = others[i].phone_number
          /\ logs[i].message_type = others[i].message_type
          /\ logs[i].node = others[i].node
          /\ logs[i].body = others[i].body

\* the store a handler leaves is the one it leaves when every send succeeds,
\* but for the status of the rows of message_logs
AsIfSent(db) ==
    /\ contact_sessions' = db.sessions
    /\ contacts' = db.contacts
    /\ SameMessages(message_logs', db.logs)

\* C31: whether or not the provider refuses a message, the handler writes one row
\* of message_logs for it and leaves the sessions exactly as it leaves them when
\* every send succeeds: a failed send rolls nothing back and sets no status.
C31_FailedSendKeepsTransition ==
    [][/\ call'.fn = "handleIncomingEvent"
          => AsIfSent(handleIncomingEvent(Db, call'.payload, call'.matchedFlow, now, {}))
       /\ call'.fn = "startFlow"
          => \E data \in InitialData :
                AsIfSent(getSession(startFlow(Db, call'.phoneNumber, call'.flowId,
                                              data, now, {}),
                                    call'.phoneNumber, now).db)]_vars

\* the send of a message node was refused, its row is marked failed, and the
\* session went on past the node
C31_Witness ==
    \E i \in DOMAIN message_logs, s \in DOMAIN contact_sessions :
        /\ message_logs[i].status = "failed"
        /\ message_logs[i].message_type = "text"
        /\ HasNode(NodesOf(contact_sessions[s].flow_id), message_logs[i].node)
        /\ FindNode(NodesOf(contact_sessions[s].flow_id), message_logs[i].node).type
             = "message"
        /\ contact_sessions[s].status \in {"active", "completed"}
        /\ contact_sessions[s].current_node_id # message_logs[i].node


(***************************************************************************)
(* Tag nodes                                                               *)
(***************************************************************************)
TagSet(tags) == {tags[i] : i \in DOMAIN tags}

NoDuplicates(tags) == \A i, j \in DOMAIN tags : tags[i] = tags[j] => i = j

\* the pass executes the node, a tag node that adds or removes
ExecutesTag(node) ==
    /\ call.pc = "run"
    /\ call'.pc \in {"run", "done"}
    /\ call'.path # call.path
    /\ node.id = call.next
    /\ node.flow_id = call.session.flow_id
    /\ node.type = "tag"
    /\ node.properties.action \in {Str(<<"add">>), Str(<<"remove">>)}

\* C32: a tag node with action add leaves the contact the union of its tags and
\* the configured tags, each once; with action remove exactly the tags it had that
\* are not configured, as often and in the order it had them; executing the node
\* on the result once more changes nothing; and the pass goes on to the node's
\* first connection, or completes the session when the node has none.
C32_TagNode ==
    [][\A node \in NodeRows :
          ExecutesTag(node) =>
             LET c == ContactIndex(Db, call.session.phone_number)
                 before == contacts[c].tags
                 after == contacts'[c].tags
                 tags == node.properties.tags
             IN  /\ c # 0
                 /\ node.properties.action = Str(<<"add">>) =>
                       /\ TagSet(after) = TagSet(before) \cup TagSet(tags)
                       /\ NoDuplicates(after)
                 /\ node.properties.action = Str(<<"remove">>) =>
                       after = Without(before, tags)
                 /\ TagContact([Db EXCEPT !.contacts = contacts'],
                               call.session.phone_number,
                               node.properties).contacts = contacts'
                 /\ IF node.connections = <<>>
                    THEN /\ call'.pc = "done"
                         /\ contact_sessions'[call.session.id].status = "completed"
                    ELSE /\ call'.pc = "run"
                         /\ call'.next = node.connections[1].targetNodeId]_vars

\* the add node was executed for a contact that had some of its tags, and the
\* remove node for a contact that had some of its tags and others
C32_Witness ==
    /\ call.pc = "done"
    /\ call.path = <<"tr1">>
    /\ Len(contact_sessions) = 2
    /\ contact_sessions[1].flow_id = "F19"
    /\ contacts[1].tags = <<"a">>


(***************************************************************************)
(* Sessions that have ended                                                *)
(***************************************************************************)
\* C33: a session whose status is no longer active keeps its status and its
\* current_node_id in every step, whichever invocations are in flight.
C33_EndedSessionIsFrozen ==
    [][\A i \in DOMAIN contact_sessions :
          contact_sessions[i].status # "active"
          => /\ contact_sessions'[i].status = contact_sessions[i].status
             /\ contact_sessions'[i].current_node_id
                  = contact_sessions[i].current_node_id]_vars


(***************************************************************************)
(* Replies to an earlier message                                           *)
(***************************************************************************)
\* the payload is an option id <node>_btn_<i> or <node>_list_<i> that sendMessage
\* gave to an option of another node than the one the session rests at
ForeignReply(session, payload) ==
    /\ Len(payload) = 3
    /\ payload[2] \in {"_btn_", "_list_"}
    /\ payload[3] \in DigitChars
    /\ payload[1] # session.current_node_id

\* C34: a button reply or list reply whose payload names another node than the
\* one the session rests at enters none of the targets of the current node's
\* connections.
C34_ForeignReplyDoesNotAdvance ==
    [][\A p \in Phones :
          (/\ Handles(p, "button_reply") \/ Handles(p, "list_reply")
           /\ LiveSession(p) # 0
           /\ HasNode(NodesOf(contact_sessions[LiveSession(p)].flow_id),
                      contact_sessions[LiveSession(p)].current_node_id)
           /\ ForeignReply(contact_sessions[LiveSession(p)], call'.payload.payload))
          => LET s == LiveSession(p)
                 node == NodeOf(contact_sessions[s])
             IN  \A k \in DOMAIN node.connections :
                    ~EntersNext(s, node.connections[k].targetNodeId)]_vars


(***************************************************************************)
(* Condition nodes                                                         *)
(***************************************************************************)
\* the targets of the node's connections of that sourceHandle
HandleTargets(node, handle) ==
    {node.connections[k].targetNodeId :
        k \in {k \in DOMAIN node.connections : node.connections[k].sourceHandle = handle}}

\* the pass executes the node, a condition node
ExecutesCondition(node) ==
    /\ call.pc = "run"
    /\ call'.pc \in {"run", "done"}
    /\ call'.path # call.path
    /\ node.id = call.next
    /\ node.flow_id = call.session.flow_id
    /\ node.type = "condition"
    /\ node.properties # Null

\* C35 as it was stated: when the pass executes a condition node, the node it
\* goes on to is never the target of a connection of the handle opposite to the
\* result, whichever connections the node has.
C35_NeverTheOppositeBranch ==
    [][\A node \in NodeRows :
          ExecutesCondition(node)
          => LET result == evaluateCondition(node.properties, call.session.context)
             IN  call'.next \notin
                     HandleTargets(node, IF result THEN "false" ELSE "true")]_vars

\* C35: when the pass executes a condition node that has a connection of the handle
\* of the result, it goes on to the target of the first such connection; when the
\* node has none, it goes on to the target of the node's first connection, whatever
\* its handle, and completes the session when the node has no connection.
C35_BranchOrFallback ==
    [][\A node \in NodeRows :
          ExecutesCondition(node)
          => LET result == evaluateCondition(node.properties, call.session.context)
                 handle == IF result THEN "true" ELSE "false"
                 matching == {k \in DOMAIN node.connections :
                                 node.connections[k].sourceHandle = handle}
             IN  IF matching # {}
                 THEN call'.next =
                        node.connections[CHOOSE k \in matching :
                                            \A j \in matching : k <= j].targetNodeId
                 ELSE IF node.connections # <<>>
                 THEN call'.next = node.connections[1].targetNodeId
                 ELSE /\ call'.pc = "done"
                      /\ contact_sessions'[call.session.id].status = "completed"]_vars

\* the condition of F24 did not hold, and the pass goes on to the target of the
\* connection for false, which the node lists second
C35_Witness ==
    /\ call.pc = "run"
    /\ call.path = <<"co1">>
    /\ call.next = "co3"


(***************************************************************************)
(* The time of the last interaction                                        *)
(***************************************************************************)
\* C36: an inbound message, button reply or list reply that is handled against a
\* session leaves the session, when it is still active, with the time of the event
\* as its last_interaction_at.
C36_EventRefreshesSession ==
    [][\A p \in Phones :
          (/\ \E type \in {"message", "button_reply", "list_reply"} : Handles(p, type)
           /\ LiveSession(p) # 0
           /\ contact_sessions'[LiveSession(p)].status = "active")
          => contact_sessions'[LiveSession(p)].last_interaction_at = now]_vars


(***************************************************************************)
(* Answers to an input node in the handler that keeps no session           *)
(***************************************************************************)
\* the newest bot message of the phone number came from that node
LastFrom(phoneNumber, node) ==
    /\ BotRows(phoneNumber) # <<>>
    /\ BotRows(phoneNumber)[Len(BotRows(phoneNumber))].node_id = Str(<<node.id>>)

\* C37: when the newest bot message of the contact came from an input node, a text
\* of the contact, whatever it is, makes the handler hand out the message of the
\* node that follows the input node first, and no message of the flow's first node.
C37_AnswerContinuesAfterInput ==
    [][\A p \in Phones, node \in ReplyRows :
          (/\ call.fn = "reply"
           /\ call'.events = call.events + 1
           /\ call'.text # <<>>
           /\ node.type = "input"
           /\ LastFrom(p, node))
          => /\ Len(call'.posts) > Len(call.posts)
             /\ \E n \in ReplyRows :
                   /\ n.previous_node_id = node.node_id
                   /\ call'.posts[Len(call.posts) + 1].node_id = Str(<<n.id>>)
             /\ \A k \in (Len(call.posts) + 1)..Len(call'.posts) :
                   \A n \in ReplyRows :
                      n.previous_node_id = "" => call'.posts[k].node_id # Str(<<n.id>>)]_vars


(***************************************************************************)
(* POST /api/nodes/batch: the nodes of a flow are replaced.  call holds    *)
(* the rows of table nodes of the flow, the request in progress and the    *)
(* rows the engine read last.                                              *)
(***************************************************************************)
BatchFlow == "F3"

\* the nodes a request may submit: those of the flow and one more
BatchRows ==
    NodesOf(BatchFlow)
    \cup {Node("k3", BatchFlow, "message", [NoProperties EXCEPT !.label = Str(<<"More">>)],
               <<>>)}

\* step 2 of the handler: the rows to insert
nodesToInsert(flowId, nodes) ==
    {[n EXCEPT !.flow_id = flowId,
               !.properties = IF n.properties = Null THEN NoProperties ELSE n.properties] :
        n \in nodes}

BatchInit ==
    /\ StoreInit
    /\ call = [fn |-> "batch", pc |-> "idle", nodes |-> NodesOf(BatchFlow),
               before |-> NodesOf(BatchFlow), submitted |-> NodesOf(BatchFlow),
               seen |-> NodesOf(BatchFlow)]

\* step 1: delete().eq('flow_id', flowId); a request without nodes answers 200
BatchDelete ==
    \E nodes \in SUBSET BatchRows :
        /\ call.pc = "idle"
        /\ call' = [call EXCEPT !.pc = IF nodes = {} THEN "idle" ELSE "deleted",
                                !.before = call.nodes,
                                !.submitted = nodes,
                                !.nodes = {}]
        /\ UNCHANGED store

\* step 3: insert(nodesToInsert) succeeds, and the handler answers 200
BatchInsert ==
    /\ call.pc = "deleted"
    /\ call' = [call EXCEPT !.pc = "idle",
                            !.nodes = nodesToInsert(BatchFlow, call.submitted)]
    /\ UNCHANGED store

\* step 3: insert fails, the handler throws insertError and its catch answers 500
BatchInsertError ==
    /\ call.pc = "deleted"
    /\ call' = [call EXCEPT !.pc = "idle"]
    /\ UNCHANGED store

\* processCurrentNodeInput reads the nodes of the flow
BatchRead ==
    /\ call.fn = "batch"
    /\ call.seen # call.nodes
    /\ call' = [call EXCEPT !.seen = call.nodes]
    /\ UNCHANGED store

BatchNext == BatchDelete \/ BatchInsert \/ BatchInsertError \/ BatchRead

SpecBatch == BatchInit /\ [][BatchNext]_vars

\* C38: a request that ends leaves the flow with the nodes it had before when the
\* insert failed, and with exactly the submitted nodes when it succeeded; and what
\* the engine reads is the set of nodes the flow had before the request or the
\* submitted set.
C38_BatchAllOrNothing ==
    [][call.fn = "batch" =>
          /\ (call.pc = "deleted" /\ call'.pc = "idle") =>
                call'.nodes \in {call.before, nodesToInsert(BatchFlow, call.submitted)}
          /\ call'.seen # call.seen =>
                call'.seen \in {call.before, nodesToInsert(BatchFlow, call.submitted)}]_vars


====
